---- MODULE Spec2Model ----
(***************************************************************************)
(* TalentScope AI: the provider chain of ai_analyzer.py, the PDF text      *)
(* extraction and the bulk upload of app.py, and the chatbot service.      *)
(*                                                                         *)
(* Conventions of the model                                                *)
(*  - a score is a fixed-point number in tenths of a point: 6.5 is 65;     *)
(*  - a JSON / Python value is a tagged record: Null, Num(n), Str(s);      *)
(*  - a call that may raise returns Ok(v) or Raise(type, msg);             *)
(*  - a text the regular expressions read is modelled by what they find    *)
(*    in it (the skills, the years, the score mention ...).                *)
(***************************************************************************)
EXTENDS Integers, Sequences, FiniteSets, TLC

VARIABLES
    \* ---- ai_analyzer.py: AIAnalyzer
    config,         \* Config: pareto_api_key and agent id found in the environment
    pc,             \* position inside analyze_candidate
    candidate_data, \* argument of analyze_candidate
    job_skills,     \* skills the job description mentions (job_requirements)
    tess_reply,     \* what the HTTP request to Tess produced (NoReply before it)
    tess_error,     \* exception of TessAnalyzer.analyze caught by analyze_candidate
    local_error,    \* exception of EnhancedLocalAnalyzer.analyze caught there
    calls,          \* providers invoked by this call of analyze_candidate, in order
    result,         \* dictionary returned by analyze_candidate (NoResult before)
    raised,         \* TRUE when an exception left analyze_candidate
    last_fields,    \* keys of the dictionary the previous call returned ({}: none)
    \* ---- app.py: extract_text_from_pdf
    pdf_pc,         \* position inside extract_text_from_pdf
    pdf_file,       \* what each library does with the file
    pdf_used,       \* libraries that were run on the file, in order
    pdf_text,       \* the returned text
    pdf_raised,     \* TRUE when an exception left extract_text_from_pdf
    \* ---- app.py: the database and the upload folder
    db_jobs,        \* table job: a sequence of rows
    db_candidates,  \* table candidate: a sequence of rows, committed
    uploads,        \* paths of the files in UPLOAD_FOLDER
    \* ---- app.py: bulk_upload_candidates
    bulk_pc,        \* "idle", or "done" once a request was answered
    bulk_request,   \* the POST request and what the environment does during it
    success_count,  \* the handler's counters when it ended
    error_count,
    bulk_added,     \* rows the request added to table candidate
    bulk_response,  \* how the request was answered
    \* ---- app.py: chatbot_query, and chatbot_service.py
    chat_pc,        \* "idle", or "done" once a request was answered
    chat_request,   \* the POST request and what the environment does during it
    chat_response,  \* the JSON answer and its HTTP status
    chat_tess,      \* the TessResponse process_query returned, if it was called
    chat_calls,     \* calls of TessChatbotService.process_query
    chat_posts,     \* HTTP requests sent to the remote endpoint
    \* ---- app.py: the start-up block
    schema,         \* tables of the database file and the shape of table candidate
    boot_pc,        \* position inside the start-up block ("down": not started)
    boot_env,       \* which database statements fail during this start-up
    boots,          \* start-ups begun so far
    boot_log,       \* what this start-up did
    prev_boot_log,  \* what the previous start-up did
    schema_at_boot, \* the schema when this start-up began
    boot_raised,    \* TRUE when an exception left the start-up block
    \* ---- pure functions: format_phone, _calculate_advanced_metrics
    fn_pc,          \* "idle", or "done" once the function returned
    fn_name,        \* the function that was called
    fn_input,       \* its argument
    fn_output,      \* what it returned
    \* ---- app.py: the other request handlers
    db_users,       \* table user: a sequence of rows
    db_interviews,  \* table interview: a sequence of rows
    web_pc,         \* "idle", or "done" once a request was answered
    web_request,    \* the request and what the environment does during it
    web_response,   \* how the request was answered
    db_prev         \* the tables and the upload folder when the request arrived

avars == <<config, pc, candidate_data, job_skills, tess_reply, tess_error,
           local_error, calls, result, raised, last_fields>>
pvars == <<pdf_pc, pdf_file, pdf_used, pdf_text, pdf_raised>>
dvars == <<db_jobs, db_candidates, uploads>>
bvars == <<bulk_pc, bulk_request, success_count, error_count, bulk_added,
           bulk_response>>
cvars == <<chat_pc, chat_request, chat_response, chat_tess, chat_calls,
           chat_posts>>
svars == <<schema, boot_pc, boot_env, boots, boot_log, prev_boot_log,
           schema_at_boot, boot_raised>>
fvars == <<fn_pc, fn_name, fn_input, fn_output>>
wvars == <<db_users, db_interviews, web_pc, web_request, web_response, db_prev>>

\* ------------------------------------------------------------------ bounds
MaxSkills == 6      \* size of the largest skill set of a CV or job text
MaxPages == 2       \* pages of a PDF
MaxFiles == 2       \* files of one bulk upload
MaxCandidates == 3  \* rows of table candidate
MaxChatRows == 2    \* rows of table candidate when the chatbot is asked
MaxBoots == 2       \* start-ups of the application on one database
MaxUsers == 3       \* rows of table user
MaxRows == 2        \* rows of an imported CSV/Excel file
MaxInterviews == 1  \* rows of table interview
MaxStatusRows == 2  \* candidates whose status is followed
MaxReanalyzed == 2  \* candidates that are analysed again
MaxMetricRows == 3  \* candidates of the chatbot context

\* ------------------------------------------------------------ Python values
Null == [t |-> "null"]
Num(n) == [t |-> "num", v |-> n]
Str(s) == [t |-> "str", s |-> s]
EmptyStr == [t |-> "str", s |-> ""]
IsNum(x) == x.t = "num"

\* Python truthiness of a JSON value: None, 0 and "" are falsy
Truthy(x) ==
    CASE x.t = "null" -> FALSE
      [] x.t = "num"  -> x.v # 0
      [] x.t = "str"  -> x.s # ""
      [] OTHER        -> TRUE

Ok(v) == [ok |-> TRUE, val |-> v]
Raise(type, msg) == [ok |-> FALSE, exc |-> [type |-> type, msg |-> msg]]

Min(a, b) == IF a <= b THEN a ELSE b
Max(a, b) == IF a >= b THEN a ELSE b

\* first n elements of a sequence: s[:n]
Take(s, n) == SubSeq(s, 1, Min(n, Len(s)))

\* ------------------------------------------------------------------ enums
TESS_PARETO == "pareto_tess_json"
ENHANCED_LOCAL == "enhanced_local"
EMERGENCY_FALLBACK == "error"

HIGHLY_RECOMMENDED == "Altamente Recomendado"
RECOMMENDED == "Recomendado"
MANUAL_REVIEW == "Analise Manual Recomendada"
NOT_RECOMMENDED == "Nao Recomendado"
SYSTEM_ERROR == "Erro de Sistema"

SENIOR == "Senior"
PLENO == "Pleno"
JUNIOR == "Junior"
TRAINEE == "Trainee/Estagiario"
UNDETERMINED == "Indeterminado"

\* ----------------------------------------------------------------- Config
\* Config._build_endpoint: an endpoint exists iff the agent id is non-empty
_build_endpoint(agent_id) == agent_id

\* Config.is_tess_configured
is_tess_configured(cfg) == cfg.pareto_api_key /\ _build_endpoint(cfg.agent_id)

\* a handler written `except requests.exceptions.RequestException`
except_RequestException(exc) == exc.type \in {"Timeout", "ConnectionError"}

\* the classes `except Exception` catches: every exception the providers raise
\* is a subclass of Exception
ExceptionTypes == {"Exception", "Timeout", "ConnectionError", "JSONDecodeError",
                   "TypeError", "ValueError", "AttributeError", "ImportError",
                   "UnicodeEncodeError", "PDFSyntaxError", "FileNotFoundError"}
except_Exception(exc) == exc.type \in ExceptionTypes

\* -------------------------------------------------- texts and HTTP replies
\* An output text of the remote agent, by what the parsers find in it:
\*   fmt "json": the text holds a JSON object, parsed as `analysis`
\*   fmt "free": free text; `mention` is the number after "score:" / before "/10"
\*               (Null when there is none), `years` the "N anos de experiencia"
\*   fmt "dump": json.dumps of the whole response, which has none of the keys
\*               the analysis is read from
JsonText(a) == [t |-> "text", fmt |-> "json", analysis |-> a]
FreeText(m, y) == [t |-> "text", fmt |-> "free", mention |-> m, years |-> y]
RawDump == [t |-> "text", fmt |-> "dump"]

List(items) == [t |-> "list", items |-> items]
Dict(anos, cargos) == [t |-> "dict", anos |-> anos, cargos |-> cargos]

EmptyAnalysis ==
    [score |-> Null, pontuacao |-> Null, nota |-> Null, hard_skills |-> Null,
     soft_skills |-> Null, experiencia |-> Null, pontos_fortes |-> Null,
     pontos_atencao |-> Null, observacoes_riscos |-> Null]

fallback_keys == <<"output", "data.output", "result", "message", "response">>
FallbackKeySet == {fallback_keys[i] : i \in 1..Len(fallback_keys)}
NoFallback == [k \in FallbackKeySet |-> Null]

NoReply == [kind |-> "none"]
NotJson == [json |-> FALSE]
JsonBody(r0, fb) == [json |-> TRUE, responses0 |-> r0, fb |-> fb]
HttpReply(status, body) == [kind |-> "http", status |-> status, body |-> body]

\* ---------------------------------------------------------- ResponseParser
\* ResponseParser.extract_output: responses[0].output, then the fallback keys
\* in order, then the raw JSON of the response
RECURSIVE first_fallback(_, _)
first_fallback(fb, i) ==
    IF i > Len(fallback_keys) THEN Null
    ELSE IF Truthy(fb[fallback_keys[i]]) THEN fb[fallback_keys[i]]
    ELSE first_fallback(fb, i + 1)

extract_output(response_data) ==
    IF Truthy(response_data.responses0) THEN response_data.responses0
    ELSE IF Truthy(first_fallback(response_data.fb, 1))
         THEN first_fallback(response_data.fb, 1)
    ELSE RawDump

\* TextExtractor.extract_score: min(10.0, max(0.0, value)), 6.5 without a mention
DefaultScore == 65
extract_score(text) ==
    IF IsNum(text.mention) THEN Min(100, Max(0, text.mention.v)) ELSE DefaultScore

\* TextExtractor.extract_years: 2.0 without a mention
DefaultYears == 2
extract_years(text) == IF IsNum(text.years) THEN text.years.v ELSE DefaultYears

\* ResponseParser._fallback_parse
_fallback_parse(text) ==
    [score |-> Num(extract_score(text)),
     pontuacao |-> Null, nota |-> Null,
     hard_skills |-> List(<<>>),
     soft_skills |-> List(<<"Comunicacao", "Trabalho em equipe">>),
     experiencia |-> Dict(Num(extract_years(text)), <<"Verificar manualmente">>),
     pontos_fortes |-> List(<<"Experiencia relevante", "Perfil potencialmente aderente">>),
     pontos_atencao |-> List(<<"Validar escopo de atuacao", "Verificar profundidade tecnica">>),
     observacoes_riscos |-> List(<<>>)]

\* ResponseParser.parse_json_response
parse_json_response(output) ==
    CASE output.fmt = "json" -> output.analysis
      [] output.fmt = "dump" -> EmptyAnalysis
      [] OTHER               -> _fallback_parse(output)

\* ------------------------------------------------------------ TessAnalyzer
\* TessAnalyzer._extract_score: score or pontuacao or nota, float() of it, 6.5
\* when float() raises TypeError / ValueError
_extract_score(analysis) ==
    LET picked == IF Truthy(analysis.score) THEN analysis.score
                  ELSE IF Truthy(analysis.pontuacao) THEN analysis.pontuacao
                  ELSE analysis.nota
    IN  IF IsNum(picked) THEN picked.v ELSE DefaultScore

ItemsOf(x) == IF x.t = "list" THEN x.items ELSE <<>>

\* TessAnalyzer._process_skills
_process_skills(hard_skills) == ItemsOf(hard_skills)

\* TessAnalyzer._process_experience: float(years) raises on a non-numeric string
_process_experience(experiencia) ==
    IF experiencia.t # "dict" THEN Ok([years |-> 0, positions |-> <<>>])
    ELSE LET years == IF Truthy(experiencia.anos) THEN experiencia.anos ELSE Num(0)
         IN  IF IsNum(years)
             THEN Ok([years |-> years.v, positions |-> experiencia.cargos])
             ELSE Raise("ValueError", "could not convert string to float")

\* TessAnalyzer._determine_seniority
_determine_seniority(years, score) ==
    IF years >= 7 \/ score >= 85 THEN SENIOR
    ELSE IF years >= 4 \/ score >= 70 THEN PLENO
    ELSE IF years >= 2 THEN JUNIOR
    ELSE TRAINEE

\* TessAnalyzer._get_recommendation
_get_recommendation(score) ==
    IF score >= 80 THEN HIGHLY_RECOMMENDED
    ELSE IF score >= 65 THEN RECOMMENDED
    ELSE IF score >= 50 THEN MANUAL_REVIEW
    ELSE NOT_RECOMMENDED

\* TessAnalyzer._format_list: "" for an empty list
_format_list(items, prefix) ==
    IF items = <<>> THEN EmptyStr ELSE [t |-> "lines", prefix |-> prefix, items |-> items]

OrDefault(x, d) == IF Truthy(x) THEN x ELSE Str(d)

\* candidate_data.get(key, default) of the three contact keys
contact_info(cd, default) ==
    IF cd.contact
    THEN [email |-> "ana@example.com", phone |-> "11999999999",
          linkedin |-> "linkedin.com/in/ana"]
    ELSE [email |-> default, phone |-> default, linkedin |-> default]

\* TextExtractor.count_projects
count_projects(resume_text) == Min(resume_text.projects, 20)

\* TessAnalyzer._structure_response
_structure_response(output, cd, raw_data) ==
    LET analysis == parse_json_response(output)
        score == _extract_score(analysis)
        hard_skills == analysis.hard_skills
        soft_skills == ItemsOf(analysis.soft_skills)
        pontos_fortes == ItemsOf(analysis.pontos_fortes)
        skill_names == _process_skills(hard_skills)
        exp == _process_experience(analysis.experiencia)
    IN  IF ~exp.ok THEN exp
        ELSE
        LET years == exp.val.years
            positions == exp.val.positions
            seniority == _determine_seniority(years, score)
        IN Ok(
           [contact_info |-> contact_info(cd, "Nao informado"),
            extracted_skills |-> Take(skill_names, 20),
            matched_skills |-> Take(skill_names, 15),
            missing_skills |-> <<>>,
            seniority_detected |-> seniority,
            experience_years |-> years,
            experience_summary |-> <<seniority, years, Take(positions, 3)>>,
            leadership_responsibilities |-> <<"Avaliar em entrevista">>,
            complexity_indicators |-> <<score>>,
            mentorship_indicators |->
                IF soft_skills # <<>> THEN Take(soft_skills, 3)
                ELSE <<"Validar em entrevista">>,
            strengths |-> OrDefault(_format_list(pontos_fortes, "ok"), "Perfil adequado"),
            weaknesses |-> OrDefault(_format_list(ItemsOf(analysis.pontos_atencao), "warn"),
                                     "Nenhum ponto critico"),
            professional_summary |-> <<seniority, years, score, Len(skill_names)>>,
            hard_skills_score |-> Max(10, Min(100, score)),
            soft_skills_score |-> Max(10, Min(100, score - 5)),
            experience_score |-> Max(10, Min(100, years * 12)),
            overall_score |-> score,
            recommendation |-> _get_recommendation(score),
            recommendation_reason |->
                IF pontos_fortes # <<>> THEN pontos_fortes[1] ELSE "Perfil aderente",
            potential_risks |-> OrDefault(_format_list(ItemsOf(analysis.observacoes_riscos), "risk"),
                                          "Sem riscos criticos"),
            analysis_source |-> "Tess AI (Pareto) - Agent 67",
            analysis_timestamp |-> "now",
            provider |-> TESS_PARETO,
            confidence_level |-> "Alta - Analise estruturada",
            tess_raw_output |-> output,
            tess_full_response |-> raw_data,
            tess_json_analysis |-> analysis,
            total_skills_found |-> Len(skill_names),
            skill_match_percentage |-> Min(100, score),
            projects_mentioned |-> count_projects(cd.resume_text),
            education_level |-> "Avaliar manualmente",
            soft_skills_identified |-> soft_skills,
            hard_skills_detailed |-> hard_skills,
            job_positions |-> positions,
            analysis_note |-> <<"Analise Tess", score, Len(skill_names)>>])

\* TessAnalyzer._build_prompt: resume_text[:max_resume_length] raises on None
_build_prompt(cd) ==
    IF cd.resume_text.t = "null"
    THEN Raise("TypeError", "'NoneType' object is not subscriptable")
    ELSE Ok("prompt")

\* TessAnalyzer._format_error
_format_error(response) == "HTTP " \o ToString(response.status)

\* TessAnalyzer.analyze, given what session.post produces
TessAnalyzer_analyze(cd, reply) ==
    IF ~_build_prompt(cd).ok THEN _build_prompt(cd)
    ELSE IF reply.kind = "timeout" THEN Raise("Timeout", "Read timed out")
    ELSE IF reply.kind = "refused" THEN Raise("ConnectionError", "Connection refused")
    ELSE IF reply.status # 200 THEN Raise("Exception", _format_error(reply))
    ELSE IF ~reply.body.json THEN Raise("JSONDecodeError", "Expecting value")
    ELSE LET output == extract_output(reply.body)
         IN  IF ~Truthy(output) THEN Raise("Exception", "Output vazio da Tess")
             ELSE _structure_response(output, cd, reply.body)

\* ------------------------------------------------------ EnhancedCVAnalyzer
\* A CV text, by what the analyzer's patterns find in it
CV(skills, short, years_found, seniority_kw, action_verbs, leadership_hits, mentorship_hits, projects, education) ==
    [t |-> "cv", skills |-> skills, short |-> short, years_found |-> years_found,
     seniority_kw |-> seniority_kw, action_verbs |-> action_verbs,
     leadership_hits |-> leadership_hits, mentorship_hits |-> mentorship_hits,
     projects |-> projects, education |-> education]

\* round(a / b) to the nearest integer, a >= 0, b > 0
RoundDiv(a, b) == (2 * a + b) \div (2 * b)

\* seniority_indicators[level]['score_multiplier'], in hundredths
score_multiplier(level) ==
    CASE level = "Junior" -> 85
      [] level = "Pleno"  -> 100
      [] level = "Senior" -> 115
      [] level = "Expert" -> 125

\* EnhancedCVAnalyzer._calculate_tech_match; percentage in tenths of a percent
_calculate_tech_match(cv_skills, jb_skills) ==
    LET matched == cv_skills \cap jb_skills
        missing == jb_skills \ cv_skills
        n == Cardinality(cv_skills)
        j == Cardinality(jb_skills)
        m == Cardinality(matched)
        bonus == Min(150, Cardinality(cv_skills \ jb_skills) * 15)
    IN  IF jb_skills = {}
        THEN [matched |-> cv_skills, missing |-> {},
              percentage |-> IF n >= 10 THEN 750 ELSE IF n >= 5 THEN 600 ELSE 400,
              score |-> IF n >= 10 THEN 75 ELSE IF n >= 5 THEN 60 ELSE 45]
        ELSE IF m = 0
        THEN [matched |-> matched, missing |-> missing, percentage |-> 0, score |-> 20]
        ELSE [matched |-> matched, missing |-> missing,
              percentage |-> RoundDiv(1000 * m, j),
              score |-> Min(100, RoundDiv(1000 * m + bonus * j, 10 * j))]

\* EnhancedCVAnalyzer._analyze_experience
_analyze_experience(cv) ==
    LET found == cv.years_found
        years == IF found = 0 /\ cv.action_verbs >= 5 THEN 2
                 ELSE IF found = 0 THEN 1
                 ELSE found
    IN  [years |-> years, action_verbs_count |-> cv.action_verbs,
         has_explicit_years |-> years > 0]

\* EnhancedCVAnalyzer._detect_seniority
_detect_seniority(cv, years) ==
    LET kw == IF cv.seniority_kw = "none" THEN "Pleno" ELSE cv.seniority_kw
        level == IF years >= 8
                 THEN (IF kw \in {"Junior", "Pleno"} THEN "Senior" ELSE kw)
                 ELSE IF years >= 5
                 THEN (IF kw = "Junior" THEN "Pleno" ELSE kw)
                 ELSE IF years < 2
                 THEN (IF kw \in {"Senior", "Expert"} THEN "Junior" ELSE kw)
                 ELSE kw
    IN  [level |-> level, multiplier |-> score_multiplier(level),
         confidence |-> IF cv.seniority_kw = "none" THEN "Media" ELSE "Alta"]

\* EnhancedCVAnalyzer._analyze_projects
_analyze_projects(cv) == [count |-> Min(cv.projects, 15)]

\* EnhancedCVAnalyzer._analyze_leadership: the lists, by their lengths
_analyze_leadership(cv) ==
    [responsibilities |-> IF cv.leadership_hits = 0 THEN 1 ELSE cv.leadership_hits,
     individual |-> cv.leadership_hits = 0,
     mentorship |-> IF cv.mentorship_hits = 0 THEN 1 ELSE cv.mentorship_hits,
     not_evidenced |-> cv.mentorship_hits = 0]

\* EnhancedCVAnalyzer._calculate_scores_calibrated
_calculate_scores_calibrated(tech_match, experience, projects, leadership, education, seniority, short) ==
    LET technical == IF short THEN 8 * tech_match.score ELSE 10 * tech_match.score
        exp_base == IF experience.years >= 8 THEN 90
                    ELSE IF experience.years >= 5 THEN 80
                    ELSE IF experience.years >= 3 THEN 70
                    ELSE IF experience.years >= 2 THEN 60
                    ELSE 50
        exp_score == Min(100, exp_base + Min(10, experience.action_verbs_count))
        soft_lead == IF leadership.responsibilities >= 3 THEN 25
                     ELSE IF leadership.responsibilities >= 2 THEN 15
                     ELSE IF leadership.responsibilities > 1 THEN 8
                     ELSE 0
        soft_ment == IF leadership.mentorship >= 2 THEN 15
                     ELSE IF ~leadership.not_evidenced THEN 5
                     ELSE 0
        soft == Min(100, 55 + soft_lead + soft_ment)
        project_score == IF projects.count >= 10 THEN 85
                         ELSE IF projects.count >= 5 THEN 70
                         ELSE IF projects.count >= 3 THEN 60
                         ELSE 45
        \* units of 1e-4 point
        weighted == 35 * technical + 300 * exp_score + 200 * soft + 150 * project_score
        \* 0.9 + (multiplier - 1.0) * 0.5, in thousandths
        seniority_factor == 900 + (seniority.multiplier - 100) * 5
        \* units of 1e-7 point
        overall == weighted * seniority_factor + education * 2000000
        clamped == Max(20000000, Min(100000000, overall))
    IN  [technical |-> RoundDiv(technical, 10),
         experience |-> exp_score,
         soft_skills |-> soft,
         projects |-> project_score,
         overall |-> RoundDiv(clamped, 1000000)]

\* EnhancedCVAnalyzer._generate_detailed_feedback: the recommendation
_generate_detailed_feedback(scores) ==
    IF scores.overall >= 85 THEN HIGHLY_RECOMMENDED
    ELSE IF scores.overall >= 70 THEN RECOMMENDED
    ELSE IF scores.overall >= 55 THEN MANUAL_REVIEW
    ELSE NOT_RECOMMENDED

\* EnhancedCVAnalyzer.analyze
EnhancedCVAnalyzer_analyze(cv, jb_skills) ==
    LET tech_match == _calculate_tech_match(cv.skills, jb_skills)
        experience_data == _analyze_experience(cv)
        seniority == _detect_seniority(cv, experience_data.years)
        projects_data == _analyze_projects(cv)
        leadership == _analyze_leadership(cv)
        scores == _calculate_scores_calibrated(tech_match, experience_data,
                      projects_data, leadership, cv.education, seniority, cv.short)
        recommendation == _generate_detailed_feedback(scores)
    IN  [contact_info |-> [email |-> "Extrair do formulario",
                           phone |-> "Extrair do formulario",
                           linkedin |-> "Extrair do formulario"],
         extracted_skills |-> cv.skills,
         matched_skills |-> tech_match.matched,
         missing_skills |-> tech_match.missing,
         seniority_detected |-> seniority.level,
         experience_years |-> experience_data.years,
         experience_summary |-> <<seniority.level, experience_data.years,
                                  Cardinality(cv.skills)>>,
         leadership_responsibilities |-> leadership.responsibilities,
         complexity_indicators |-> projects_data.count,
         mentorship_indicators |-> leadership.mentorship,
         strengths |-> <<"strengths", tech_match.percentage, experience_data.years>>,
         weaknesses |-> <<"weaknesses", tech_match.percentage, projects_data.count>>,
         professional_summary |-> <<seniority.level, experience_data.years>>,
         hard_skills_score |-> scores.technical,
         soft_skills_score |-> scores.soft_skills,
         experience_score |-> scores.experience,
         overall_score |-> scores.overall,
         recommendation |-> recommendation,
         recommendation_reason |-> <<recommendation, scores.overall>>,
         potential_risks |-> <<"risks", tech_match.percentage>>,
         analysis_source |-> "Enhanced Local Analyzer",
         analysis_timestamp |-> "now",
         provider |-> ENHANCED_LOCAL,
         confidence_level |-> "Alta - Analise estruturada avancada",
         total_skills_found |-> Cardinality(cv.skills),
         skill_match_percentage |-> tech_match.percentage,
         projects_mentioned |-> projects_data.count,
         education_level |-> cv.education,
         analysis_note |-> "Analise avancada com multiplos criterios"]

\* ---------------------------------------------------- EnhancedLocalAnalyzer
\* EnhancedLocalAnalyzer.analyze: the import or the analysis may raise, and the
\* exception is logged and re-raised; `fault` is what the environment does to
\* the call ("none", a missing module, a console that cannot print)
EnhancedLocalAnalyzer_analyze(cd, jb_skills, fault) ==
    IF fault = "ImportError"
    THEN Raise("ImportError", "No module named 'enhanced_analyzer'")
    ELSE IF fault = "UnicodeEncodeError"
    THEN Raise("UnicodeEncodeError", "'charmap' codec can't encode character")
    ELSE IF cd.resume_text.t = "null"
    THEN Raise("AttributeError", "'NoneType' object has no attribute 'lower'")
    ELSE Ok([EnhancedCVAnalyzer_analyze(cd.resume_text, jb_skills)
             EXCEPT !.contact_info = contact_info(cd, "Nao informado")])

\* an emergency payload that leaves the recommendation out
_emergency_fallback_no_recommendation(cd, error) ==
    [contact_info |-> contact_info(cd, "N/A"),
     extracted_skills |-> <<>>, matched_skills |-> <<>>, missing_skills |-> <<>>,
     seniority_detected |-> UNDETERMINED, experience_years |-> 0,
     experience_summary |-> "Erro na analise", strengths |-> <<"Erro", error>>,
     weaknesses |-> "Analise nao concluida",
     professional_summary |-> "Sistema indisponivel",
     hard_skills_score |-> 0, soft_skills_score |-> 0, experience_score |-> 0,
     overall_score |-> 0, recommendation_reason |-> error,
     potential_risks |-> "Analise manual obrigatoria",
     analysis_source |-> "Erro de Sistema", analysis_timestamp |-> "now",
     provider |-> EMERGENCY_FALLBACK, confidence_level |-> "Nenhuma",
     error |-> error]

\* -------------------------------------------------------------- AIAnalyzer
\* AIAnalyzer._emergency_fallback
_emergency_fallback(cd, error) ==
    [contact_info |-> contact_info(cd, "N/A"),
     extracted_skills |-> <<>>,
     matched_skills |-> <<>>,
     missing_skills |-> <<>>,
     seniority_detected |-> UNDETERMINED,
     experience_years |-> 0,
     experience_summary |-> "Erro na analise",
     strengths |-> <<"Erro", error>>,
     weaknesses |-> "Analise nao concluida",
     professional_summary |-> "Sistema indisponivel",
     hard_skills_score |-> 0,
     soft_skills_score |-> 0,
     experience_score |-> 0,
     overall_score |-> 0,
     recommendation |-> SYSTEM_ERROR,
     recommendation_reason |-> error,
     potential_risks |-> "Analise manual obrigatoria",
     analysis_source |-> "Erro de Sistema",
     analysis_timestamp |-> "now",
     provider |-> EMERGENCY_FALLBACK,
     confidence_level |-> "Nenhuma",
     error |-> error]

\* ------------------------------------------------------------------ inputs
SkillSets == {{}, 1..2, 1..MaxSkills}
JobSkillSets == {{}, 2..3}

\* action verbs, leadership hits, mentorship hits, project mentions, education
Profiles == {<<0, 0, 0, 0, 0>>, <<6, 2, 1, 4, 4>>, <<12, 3, 2, 25, 7>>}

CVs == {CV(s, sh, y, kw, p[1], p[2], p[3], p[4], p[5]) :
            s \in SkillSets, sh \in BOOLEAN, y \in {0, 8},
            kw \in {"none", "Expert"}, p \in Profiles}

CandidateData == [contact : BOOLEAN, resume_text : CVs \cup {Null}]

Configs == [pareto_api_key : BOOLEAN, agent_id : BOOLEAN]

FullAnalysis(score) ==
    [EmptyAnalysis EXCEPT !.score = score,
                          !.hard_skills = List(<<"Python", "SQL">>),
                          !.soft_skills = List(<<"Comunicacao">>),
                          !.experiencia = Dict(Num(3), <<"Analista">>),
                          !.pontos_fortes = List(<<"Boa base tecnica">>)]

Analyses ==
    {FullAnalysis(sc) : sc \in {Null, Num(0), Num(-30), Num(70), Num(85),
                                 Num(150), Str("oito")}}
    \cup {[FullAnalysis(sc) EXCEPT !.pontuacao = Num(90)] : sc \in {Null, Num(0)}}
    \cup {[FullAnalysis(Null) EXCEPT !.nota = Num(40)]}
    \cup {[FullAnalysis(Num(70)) EXCEPT !.experiencia = e] :
              e \in {Null, Dict(Num(10), <<>>), Dict(Num(0), <<>>),
                     Dict(Str("cinco"), <<>>)}}
    \cup {EmptyAnalysis}

Texts ==
    {JsonText(a) : a \in Analyses}
    \cup {FreeText(m, y) : m \in {Null, Num(0), Num(70), Num(150)},
                           y \in {Null, Num(10)}}

Fallbacks ==
    {NoFallback,
     [NoFallback EXCEPT !["output"] = EmptyStr],
     [NoFallback EXCEPT !["result"] = FreeText(Num(70), Null)]}

Bodies ==
    {NotJson}
    \cup {JsonBody(r0, fb) : r0 \in {Null, EmptyStr}, fb \in Fallbacks}
    \cup {JsonBody(r0, NoFallback) : r0 \in Texts}

TessReplies ==
    {[kind |-> "timeout"], [kind |-> "refused"]}
    \cup {HttpReply(500, b) : b \in {NotJson, JsonBody(Null, NoFallback)}}
    \cup {HttpReply(200, b) : b \in Bodies}

LocalFaults == {"none", "ImportError", "UnicodeEncodeError"}

\* ----------------------------------------------------------- the analyzer
NoResult == [provider |-> "none"]
NoError == [type |-> "none", msg |-> ""]

\* AIAnalyzer.__init__: the environment decides what Config finds
AnalyzerInit ==
    /\ config \in Configs
    /\ pc = "idle"
    /\ candidate_data = [contact |-> FALSE, resume_text |-> Null]
    /\ job_skills = {}
    /\ tess_reply = NoReply
    /\ tess_error = NoError
    /\ local_error = NoError
    /\ calls = <<>>
    /\ result = NoResult
    /\ raised = FALSE
    /\ last_fields = {}

\* AIAnalyzer.__init__: tess_analyzer is None unless Tess is configured
tess_analyzer(cfg) == is_tess_configured(cfg)

\* analyze_candidate is called: "if self.tess_analyzer:"
analyze_candidate_enter ==
    /\ pc = "idle"
    /\ \E cd \in CandidateData, js \in JobSkillSets :
          /\ candidate_data' = cd
          /\ job_skills' = js
    /\ pc' = IF tess_analyzer(config) THEN "tess" ELSE "local"
    /\ tess_reply' = NoReply
    /\ tess_error' = NoError
    /\ local_error' = NoError
    /\ calls' = <<>>
    /\ result' = NoResult
    /\ raised' = FALSE
    /\ UNCHANGED <<config, last_fields>>

\* Estrategia 1 without its `return`: the result is kept and Estrategia 2 runs
analyze_candidate_tess_no_return ==
    /\ pc = "tess"
    /\ \E reply \in TessReplies :
          LET r == TessAnalyzer_analyze(candidate_data, reply)
          IN  /\ tess_reply' = IF _build_prompt(candidate_data).ok THEN reply ELSE NoReply
              /\ calls' = Append(calls, "tess")
              /\ pc' = "local"
              /\ IF r.ok
                 THEN /\ result' = r.val
                      /\ UNCHANGED <<tess_error, raised>>
                 ELSE /\ tess_error' = r.exc
                      /\ UNCHANGED <<result, raised>>
    /\ UNCHANGED <<config, candidate_data, job_skills, local_error, last_fields>>

\* Estrategia 1: try: return self.tess_analyzer.analyze(...) except Exception
analyze_candidate_tess ==
    /\ pc = "tess"
    /\ \E reply \in TessReplies :
          LET r == TessAnalyzer_analyze(candidate_data, reply)
          IN  /\ tess_reply' = IF _build_prompt(candidate_data).ok THEN reply ELSE NoReply
              /\ calls' = Append(calls, "tess")
              /\ IF r.ok
                 THEN /\ result' = r.val
                      /\ pc' = "done"
                      /\ UNCHANGED <<tess_error, raised>>
                 ELSE IF except_Exception(r.exc)
                 THEN /\ tess_error' = r.exc
                      /\ pc' = "local"
                      /\ UNCHANGED <<result, raised>>
                 ELSE /\ raised' = TRUE
                      /\ pc' = "done"
                      /\ UNCHANGED <<result, tess_error>>
    /\ UNCHANGED <<config, candidate_data, job_skills, local_error, last_fields>>

\* Estrategia 2: try: return self.enhanced_analyzer.analyze(...) except Exception
analyze_candidate_local ==
    /\ pc = "local"
    /\ \E fault \in LocalFaults :
          LET r == EnhancedLocalAnalyzer_analyze(candidate_data, job_skills, fault)
          IN  /\ calls' = Append(calls, "local")
              /\ IF r.ok
                 THEN /\ result' = r.val
                      /\ pc' = "done"
                      /\ UNCHANGED <<local_error, raised>>
                 ELSE IF except_Exception(r.exc)
                 THEN /\ local_error' = r.exc
                      /\ pc' = "emergency"
                      /\ UNCHANGED <<result, raised>>
                 ELSE /\ raised' = TRUE
                      /\ pc' = "done"
                      /\ UNCHANGED <<result, local_error>>
    /\ UNCHANGED <<config, candidate_data, job_skills, tess_reply, tess_error,
                   last_fields>>

\* a handler that passes on the exception of Estrategia 1
emergency_error_of_tess == tess_error.msg

\* the exception the handler of Estrategia 2 passes on: str(e)
emergency_error == local_error.msg

\* return self._emergency_fallback(candidate_data, job_requirements, str(e))
analyze_candidate_emergency ==
    /\ pc = "emergency"
    /\ calls' = Append(calls, "emergency")
    /\ result' = _emergency_fallback(candidate_data, emergency_error)
    /\ pc' = "done"
    /\ UNCHANGED <<config, candidate_data, job_skills, tess_reply, tess_error,
                   local_error, raised, last_fields>>

\* the caller has the result; the analyzer object is ready for the next call
analyze_candidate_return ==
    /\ pc = "done"
    /\ pc' = "idle"
    /\ last_fields' = IF raised THEN last_fields ELSE DOMAIN result
    /\ candidate_data' = [contact |-> FALSE, resume_text |-> Null]
    /\ job_skills' = {}
    /\ tess_reply' = NoReply
    /\ tess_error' = NoError
    /\ local_error' = NoError
    /\ calls' = <<>>
    /\ result' = NoResult
    /\ raised' = FALSE
    /\ UNCHANGED config


\* =================================================== extract_text_from_pdf
\* A text is a sequence of characters
Chars(c) == [t |-> "chars", c |-> c]
IsSpace(ch) == ch \in {" ", "\n"}

\* str.strip()
RECURSIVE lstrip(_)
lstrip(c) == IF c # <<>> /\ IsSpace(Head(c)) THEN lstrip(Tail(c)) ELSE c
RECURSIVE rstrip(_)
rstrip(c) ==
    IF c # <<>> /\ IsSpace(c[Len(c)]) THEN rstrip(SubSeq(c, 1, Len(c) - 1)) ELSE c
strip(c) == rstrip(lstrip(c))

\* for page in pages: page_text = page.extract_text();
\*                    if page_text: text += page_text + '\n'
RECURSIVE page_texts(_)
page_texts(pages) ==
    IF pages = <<>> THEN <<>>
    ELSE LET page_text == Head(pages)
         IN  IF page_text.t = "chars" /\ page_text.c # <<>>
             THEN page_text.c \o <<"\n">> \o page_texts(Tail(pages))
             ELSE page_texts(Tail(pages))

\* what a library does with the file: `fail` is "none", or the exception it
\* raises: ImportError (the import), FileNotFoundError or PDFSyntaxError (the
\* open), TypeError (extract_text of the last page)
Reading(pages, fail) == [pages |-> pages, fail |-> fail]
library_raises(reading) == reading.fail # "none"
library_exc(reading) == [type |-> reading.fail, msg |-> "pdf"]

\* the text one library extracts
library_text(reading) == strip(page_texts(reading.pages))

PageTexts == {Null, Chars(<<>>), Chars(<<"c", "v">>), Chars(<<" ", "x", " ">>)}
PageSeqs == UNION {[1..n -> PageTexts] : n \in 0..MaxPages}
Readings ==
    {Reading(p, "none") : p \in PageSeqs}
    \cup {Reading(<<>>, f) : f \in {"ImportError", "FileNotFoundError", "PDFSyntaxError"}}
    \cup {Reading(p, "TypeError") : p \in PageSeqs \ {<<>>}}

NoFile == [pdfplumber |-> Reading(<<>>, "none"), PyPDF2 |-> Reading(<<>>, "none")]

PdfInit ==
    /\ pdf_pc = "idle"
    /\ pdf_file = NoFile
    /\ pdf_used = <<>>
    /\ pdf_text = <<>>
    /\ pdf_raised = FALSE

\* extract_text_from_pdf(file_path) is called
extract_text_enter ==
    /\ pdf_pc = "idle"
    /\ pdf_file' \in [pdfplumber : Readings, PyPDF2 : Readings]
    /\ pdf_pc' = "pdfplumber"
    /\ pdf_used' = <<>>
    /\ pdf_text' = <<>>
    /\ pdf_raised' = FALSE

\* a version that gives up when pdfplumber raises
extract_text_pdfplumber_only ==
    /\ pdf_pc = "pdfplumber"
    /\ pdf_used' = Append(pdf_used, "pdfplumber")
    /\ pdf_text' = IF library_raises(pdf_file.pdfplumber) THEN <<>>
                   ELSE library_text(pdf_file.pdfplumber)
    /\ pdf_pc' = "done"
    /\ UNCHANGED <<pdf_file, pdf_raised>>

\* try: import pdfplumber ... return text.strip()   except Exception as e:
extract_text_pdfplumber ==
    /\ pdf_pc = "pdfplumber"
    /\ pdf_used' = Append(pdf_used, "pdfplumber")
    /\ IF ~library_raises(pdf_file.pdfplumber)
       THEN /\ pdf_text' = library_text(pdf_file.pdfplumber)
            /\ pdf_pc' = "done"
            /\ UNCHANGED pdf_raised
       ELSE IF except_Exception(library_exc(pdf_file.pdfplumber))
       THEN /\ pdf_pc' = "PyPDF2"
            /\ UNCHANGED <<pdf_text, pdf_raised>>
       ELSE /\ pdf_raised' = TRUE
            /\ pdf_pc' = "done"
            /\ UNCHANGED pdf_text
    /\ UNCHANGED pdf_file

\* try: import PyPDF2 ... return text.strip()   except Exception as e2: return ''
extract_text_PyPDF2 ==
    /\ pdf_pc = "PyPDF2"
    /\ pdf_used' = Append(pdf_used, "PyPDF2")
    /\ pdf_pc' = "done"
    /\ IF ~library_raises(pdf_file.PyPDF2)
       THEN /\ pdf_text' = library_text(pdf_file.PyPDF2)
            /\ UNCHANGED pdf_raised
       ELSE IF except_Exception(library_exc(pdf_file.PyPDF2))
       THEN /\ pdf_text' = <<>>
            /\ UNCHANGED pdf_raised
       ELSE /\ pdf_raised' = TRUE
            /\ UNCHANGED pdf_text
    /\ UNCHANGED pdf_file

\* the caller has the text
extract_text_return ==
    /\ pdf_pc = "done"
    /\ pdf_pc' = "idle"
    /\ pdf_file' = NoFile
    /\ pdf_used' = <<>>
    /\ pdf_text' = <<>>
    /\ pdf_raised' = FALSE



\* ================================================== bulk_upload_candidates
\* a file name: the text before the last dot and the extension after it
\* ("none": no dot); the empty name has an empty stem and no extension
FileName(stem, ext) == [stem |-> stem, ext |-> ext]
EmptyName == FileName("", "none")

\* str.lower() of an extension
lower(ext) == IF ext = "PDF" THEN "pdf" ELSE ext

\* validators.ALLOWED_EXTENSIONS
ALLOWED_EXTENSIONS == {"pdf"}

\* validators.allowed_file
allowed_file(filename) ==
    filename.ext # "none" /\ lower(filename.ext) \in ALLOWED_EXTENSIONS

\* validators.validate_file_size, sizes in MB
max_size_mb == 16
validate_file_size(file) ==
    IF file.size_mb > max_size_mb THEN FALSE
    ELSE IF file.size_mb = 0 THEN FALSE
    ELSE TRUE

\* validators.validate_pdf_content
validate_pdf_content(file) == file.pdf_valid

\* "not resume_text or len(resume_text.strip()) < 50"
min_text_len == 50
text_too_short(file) == file.text_len = 0 \/ file.text_len < min_text_len

\* the while loop that makes the saved file's path unique in UPLOAD_FOLDER
Path(stem, n) == [t |-> "path", stem |-> stem, n |-> n]
RECURSIVE unique_path(_, _, _)
unique_path(filename, counter, folder) ==
    IF Path(filename.stem, counter) \in folder
    THEN unique_path(filename, counter + 1, folder)
    ELSE Path(filename.stem, counter)

\* Candidate.query.filter_by(email=..., job_id=...).first(): the session
\* autoflushes, so the rows added by this request are seen
email_taken(email, job_id, rows) ==
    \E k \in 1..Len(rows) : rows[k].email = email /\ rows[k].job_id = job_id

\* the while loop that appends .1, .2, ... to the local part of the email
Email(base, n) == [t |-> "email", base |-> base, n |-> n]
RECURSIVE unique_email(_, _, _, _)
unique_email(base, counter, job_id, rows) ==
    IF email_taken(Email(base, counter), job_id, rows)
    THEN unique_email(base, counter + 1, job_id, rows)
    ELSE Email(base, counter)

\* an uploaded file and what happens while it is handled
UploadFile(filename, save_ok, size_mb, pdf_valid, text_len, query_ok, email) ==
    [filename |-> filename, save_ok |-> save_ok, size_mb |-> size_mb,
     pdf_valid |-> pdf_valid, text_len |-> text_len, query_ok |-> query_ok,
     email |-> email, overall_score |-> 72]

GoodPdf(stem, ext, email) == UploadFile(FileName(stem, ext), TRUE, 1, TRUE, 80, TRUE, email)

UploadFiles ==
    {[GoodPdf("", "none", "ana") EXCEPT !.filename = EmptyName],
     GoodPdf("notes", "txt", "ana"),
     GoodPdf("ana", "pdf", "ana"),
     GoodPdf("bob", "PDF", "ana"),
     [GoodPdf("ana", "pdf", "ana") EXCEPT !.save_ok = FALSE],
     [GoodPdf("ana", "pdf", "ana") EXCEPT !.size_mb = 17],
     [GoodPdf("ana", "pdf", "ana") EXCEPT !.size_mb = 0],
     [GoodPdf("ana", "pdf", "ana") EXCEPT !.pdf_valid = FALSE],
     [GoodPdf("ana", "pdf", "ana") EXCEPT !.text_len = 30],
     [GoodPdf("ana", "pdf", "ana") EXCEPT !.query_ok = FALSE]}

Batches == UNION {[1..n -> UploadFiles] : n \in 0..MaxFiles}

\* the counters and the session while the files are handled
Counted(acc, field) == [acc EXCEPT ![field] = @ + 1]

\* an invalid PDF that is dropped without being counted
bulk_file_uncounted_invalid(file, job_id, acc) ==
    LET filepath == unique_path(file.filename, 0, acc.folder)
        email == unique_email(file.email, 0, job_id, acc.rows)
    IN  IF file.filename = EmptyName THEN acc
        ELSE IF ~allowed_file(file.filename) THEN Counted(acc, "error_count")
        ELSE IF ~file.save_ok THEN Counted(acc, "error_count")
        ELSE IF ~validate_file_size(file) THEN Counted(acc, "error_count")
        ELSE IF ~validate_pdf_content(file) THEN acc
        ELSE IF text_too_short(file) THEN Counted(acc, "error_count")
        ELSE IF ~file.query_ok THEN Counted(acc, "error_count")
        ELSE [Counted(acc, "success_count") EXCEPT
                 !.folder = @ \cup {filepath},
                 !.rows = Append(@, [email |-> email, job_id |-> job_id,
                                     resume_path |-> filepath,
                                     ai_score |-> Num(file.overall_score),
                                     ai_analysis |-> "dict",
                                     status |-> "pending"])]

\* the body of "for file in files:": one file of the batch
bulk_file(file, job_id, acc) ==
    LET filepath == unique_path(file.filename, 0, acc.folder)
        email == unique_email(file.email, 0, job_id, acc.rows)
    IN  \* if not filename: continue
        IF file.filename = EmptyName THEN acc
        \* if not allowed_file(filename): error_count += 1; continue
        ELSE IF ~allowed_file(file.filename) THEN Counted(acc, "error_count")
        \* file.save(filepath) raises: except Exception: error_count += 1
        ELSE IF ~file.save_ok THEN Counted(acc, "error_count")
        \* each rejection: safe_delete_file(filepath); error_count += 1; continue
        ELSE IF ~validate_file_size(file) THEN Counted(acc, "error_count")
        ELSE IF ~validate_pdf_content(file) THEN Counted(acc, "error_count")
        ELSE IF text_too_short(file) THEN Counted(acc, "error_count")
        \* the query for the email raises: except Exception, the file is deleted
        ELSE IF ~file.query_ok THEN Counted(acc, "error_count")
        \* db.session.add(candidate); success_count += 1
        ELSE [Counted(acc, "success_count") EXCEPT
                 !.folder = @ \cup {filepath},
                 !.rows = Append(@, [email |-> email, job_id |-> job_id,
                                     resume_path |-> filepath,
                                     ai_score |-> Num(file.overall_score),
                                     ai_analysis |-> "dict",
                                     status |-> "pending"])]

RECURSIVE bulk_loop(_, _, _)
bulk_loop(files, job_id, acc) ==
    IF files = <<>> THEN acc
    ELSE bulk_loop(Tail(files), job_id, bulk_file(Head(files), job_id, acc))

\* Job.query.get_or_404
job_exists(job_id) == \E k \in 1..Len(db_jobs) : db_jobs[k].id = job_id

\* "if not files or len(files) == 0 or files[0].filename == ''"
no_file_selected(files) == files = <<>> \/ files[1].filename = EmptyName

NoRequest == [job_id |-> 0, has_field |-> FALSE, files |-> <<>>, commit_ok |-> TRUE]

DbInit ==
    /\ db_jobs = <<[id |-> 1, status |-> "active"]>>
    /\ db_candidates = <<>>
    /\ uploads = {}

BulkInit ==
    /\ bulk_pc = "idle"
    /\ bulk_request = NoRequest
    /\ success_count = 0
    /\ error_count = 0
    /\ bulk_added = 0
    /\ bulk_response = "none"

\* POST /jobs/<job_id>/bulk-upload, for the jobs and the batches of files given
bulk_upload_request(job_ids, batches) ==
    /\ bulk_pc = "idle"
    /\ Len(db_candidates) < MaxCandidates
    /\ Cardinality(uploads) < MaxCandidates
    /\ \E job_id \in job_ids, has_field \in BOOLEAN, files \in batches,
          commit_ok \in BOOLEAN :
          LET acc == bulk_loop(files, job_id,
                         [success_count |-> 0, error_count |-> 0,
                          folder |-> uploads, rows |-> db_candidates])
          IN  /\ has_field \/ files = <<>>
              /\ bulk_request' = [job_id |-> job_id, has_field |-> has_field,
                                  files |-> files, commit_ok |-> commit_ok]
              /\ IF ~job_exists(job_id)
                 THEN /\ bulk_response' = "404"
                      /\ success_count' = 0 /\ error_count' = 0 /\ bulk_added' = 0
                      /\ UNCHANGED <<db_candidates, uploads>>
                 ELSE IF ~has_field \/ no_file_selected(files)
                 THEN /\ bulk_response' = "redirect_bulk_upload"
                      /\ success_count' = 0 /\ error_count' = 0 /\ bulk_added' = 0
                      /\ UNCHANGED <<db_candidates, uploads>>
                 ELSE /\ success_count' = acc.success_count
                      /\ error_count' = acc.error_count
                      /\ uploads' = acc.folder
                      \* db.session.commit(), or rollback when it raises
                      /\ IF commit_ok
                         THEN /\ db_candidates' = acc.rows
                              /\ bulk_added' = Len(acc.rows) - Len(db_candidates)
                              /\ bulk_response' = "redirect_job_detail"
                         ELSE /\ UNCHANGED db_candidates
                              /\ bulk_added' = 0
                              /\ bulk_response' = "render_bulk_upload"
    /\ bulk_pc' = "done"
    /\ UNCHANGED db_jobs

\* POST /jobs/<job_id>/bulk-upload
bulk_upload_candidates == bulk_upload_request({1, 2}, Batches)

\* the response is sent
bulk_upload_return ==
    /\ bulk_pc = "done"
    /\ bulk_pc' = "idle"
    /\ bulk_request' = NoRequest
    /\ success_count' = 0
    /\ error_count' = 0
    /\ bulk_added' = 0
    /\ bulk_response' = "none"
    /\ UNCHANGED dvars

\* ============================================== chatbot_service.py
\* A text of the remote agent as a sequence of pieces: "a" is a piece of the
\* answer, "#tag" a piece one of the propaganda patterns matches, " " and "\n"
\* are whitespace.
propaganda_patterns == {"#tag"}

\* TessChatbotService._clean_propaganda: re.sub of every pattern, then strip()
_clean_propaganda(text) ==
    Chars(strip(SelectSeq(text.c, LAMBDA piece : piece \notin propaganda_patterns)))

\* str(response_data) of a dict
StrOfDict == Chars(<<"a">>)

\* Python truthiness of a value of the response
ChatTruthy(x) == IF x.t = "chars" THEN x.c # <<>> ELSE Truthy(x)

chat_keys == <<"output", "result", "message", "response">>
ChatKeySet == {chat_keys[i] : i \in 1..Len(chat_keys)}
NoChatKeys == [k \in ChatKeySet |-> Null]

\* "for key in [...]: if key in response_data and response_data[key]"
RECURSIVE first_chat_key(_, _)
first_chat_key(fb, i) ==
    IF i > Len(chat_keys) THEN Null
    ELSE IF ChatTruthy(fb[chat_keys[i]]) THEN fb[chat_keys[i]]
    ELSE first_chat_key(fb, i + 1)

\* TessChatbotService._extract_tess_output; response_data is a dict, or the
\* JSON string "" (t = "str")
_extract_tess_output(response_data) ==
    IF response_data.t = "str" THEN Chars(<<>>)
    ELSE IF ChatTruthy(response_data.responses0) THEN response_data.responses0
    ELSE IF ChatTruthy(first_chat_key(response_data.fb, 1))
         THEN first_chat_key(response_data.fb, 1)
    ELSE StrOfDict

\* TessChatbotService.__init__: the endpoint exists when agent_id is set
TessChatbotService(env) ==
    [pareto_api_key |-> env.pareto_api_key, tess_endpoint |-> env.agent_id]

\* TessChatbotService.call_tess: the text it returns and the requests it sent
call_tess(service, reply) ==
    IF ~service.pareto_api_key \/ ~service.tess_endpoint
    THEN [text |-> Str("API nao configurada"), posts |-> 0]
    ELSE IF reply.kind = "timeout"
    THEN [text |-> Str("Timeout. Tente novamente."), posts |-> 1]
    ELSE IF reply.kind = "refused"
    THEN [text |-> Str("Erro ao processar: ConnectionError"), posts |-> 1]
    ELSE IF reply.status # 200
    THEN [text |-> Str("Erro HTTP " \o ToString(reply.status)), posts |-> 1]
    ELSE IF ~reply.body.json
    THEN [text |-> Str("Erro ao processar: JSONDecodeError"), posts |-> 1]
    ELSE IF ~ChatTruthy(_extract_tess_output(reply.body.data))
    THEN [text |-> Str("Resposta vazia da Tess"), posts |-> 1]
    ELSE [text |-> _clean_propaganda(_extract_tess_output(reply.body.data)),
          posts |-> 1]

\* TessChatbotService._format_candidates_detailed: c.get('pontos_fortes')[:100]
\* raises TypeError when the value is None
_format_candidates_detailed(candidates) ==
    IF \E k \in 1..Len(candidates) : candidates[k].pontos_fortes.t = "null"
    THEN Raise("TypeError", "'NoneType' object is not subscriptable")
    ELSE Ok(Len(candidates))

\* TessChatbotService.build_prompt
build_prompt(candidates, user_query) == _format_candidates_detailed(candidates)

TessResponse(success, content, error) ==
    [success |-> success, content |-> content, error |-> error]
NoTessResponse == [success |-> FALSE, content |-> Null, error |-> Null]

\* TessChatbotService.process_query
process_query(service, candidates, user_query, reply) ==
    LET prompt == build_prompt(candidates, user_query)
        called == call_tess(service, reply)
    IN  \* except Exception as e: success=False, error=str(e)
        IF ~prompt.ok /\ except_Exception(prompt.exc)
        THEN [response |-> TessResponse(FALSE, Str("Erro ao processar"),
                                        Str(prompt.exc.msg)),
              posts |-> 0]
        ELSE [response |-> TessResponse(TRUE, called.text, Null),
              posts |-> called.posts]

\* ========================================================= chatbot_query
\* the column ai_analysis by what json.loads makes of it:
\*   "null" no text, "invalid" not JSON, "list" JSON that is not an object,
\*   "dict" an object as the analyzers write it, "dict_null" an object whose
\*   "strengths" is null
analysis_strengths(ai_analysis) ==
    CASE ai_analysis \in {"null", "invalid"} -> Ok(List(<<>>))
      [] ai_analysis = "list"      -> Raise("AttributeError", "no attribute 'get'")
      [] ai_analysis = "dict"      -> Ok(Str("strengths"))
      [] ai_analysis = "dict_null" -> Ok(Null)

\* Candidate.ai_score != None, without the test ai_score > 0
scored_not_null(c) == c.ai_score.t = "num"

\* Candidate.query.filter(Candidate.ai_score != None, Candidate.ai_score > 0)
scored(c) == c.ai_score.t = "num" /\ c.ai_score.v > 0

\* the loop that builds candidates_context: a candidate whose analysis cannot
\* be read is skipped
RECURSIVE candidates_context(_)
candidates_context(rows) ==
    IF rows = <<>> THEN <<>>
    ELSE LET c == Head(rows)
             strengths == analysis_strengths(c.ai_analysis)
         IN  IF scored(c) /\ strengths.ok
             THEN <<[score_geral |-> c.ai_score.v,
                     pontos_fortes |-> strengths.val]>>
                  \o candidates_context(Tail(rows))
             ELSE candidates_context(Tail(rows))

\* Job.query.filter_by(status='active')
jobs_context(jobs) == SelectSeq(jobs, LAMBDA j : j.status = "active")

\* the JSON body of the request: none, or an object whose "query" is absent,
\* null or a string
NoBody == [t |-> "null"]
Body(query) == [t |-> "dict", query |-> query]
Absent == [t |-> "absent"]

\* data.get('query', '').strip()
user_query_of(data) ==
    IF data.t = "null" THEN Raise("AttributeError", "no attribute 'get'")
    ELSE IF data.query.t = "absent" THEN Ok(<<>>)
    ELSE IF data.query.t = "null" THEN Raise("AttributeError", "no attribute 'strip'")
    ELSE Ok(strip(data.query.c))

ChatResponse(status, success, kind) ==
    [status |-> status, success |-> success, kind |-> kind]
NoChatResponse == ChatResponse(0, Null, "none")
Bool(b) == [t |-> "bool", v |-> b]

ChatQueries ==
    {NoBody, Body(Absent), Body(Null), Body(Chars(<<>>)), Body(Chars(<<" ">>)),
     Body(Chars(<<" ", "a">>))}

ChatData(r0, fb) == [t |-> "dict", responses0 |-> r0, fb |-> fb]
ChatBodies ==
    {[json |-> FALSE], [json |-> TRUE, data |-> EmptyStr]}
    \cup {[json |-> TRUE, data |-> ChatData(r0, NoChatKeys)] :
             r0 \in {Null, Chars(<<>>), Chars(<<"a", "#tag", "\n">>),
                     Chars(<<"#tag">>)}}
    \cup {[json |-> TRUE,
           data |-> ChatData(Null, [NoChatKeys EXCEPT !["message"] = Chars(<<"a">>)])]}
ChatReplies ==
    {[kind |-> "timeout"], [kind |-> "refused"],
     [kind |-> "http", status |-> 500, body |-> [json |-> FALSE]]}
    \cup {[kind |-> "http", status |-> 200, body |-> b] : b \in ChatBodies}

ChatRow(ai_score, ai_analysis) ==
    [email |-> Email("ana", 0), job_id |-> 1, resume_path |-> Path("ana", 0),
     ai_score |-> ai_score, ai_analysis |-> ai_analysis, status |-> "pending"]
ChatRows ==
    {ChatRow(sc, an) : sc \in {Null, Num(0)}, an \in {"null", "dict"}}
    \cup {ChatRow(Num(72), an) : an \in {"null", "invalid", "list", "dict", "dict_null"}}
ChatTables == UNION {[1..n -> ChatRows] : n \in 0..MaxChatRows}
ChatJobs == {<<>>, <<[id |-> 1, status |-> "active"]>>,
             <<[id |-> 1, status |-> "closed"]>>}
NoChatRequest == [data |-> NoBody, env |-> [pareto_api_key |-> FALSE, agent_id |-> FALSE],
                  reply |-> [kind |-> "timeout"], import_ok |-> TRUE]

DbChatInit ==
    /\ db_jobs \in ChatJobs
    /\ db_candidates \in ChatTables
    /\ uploads = {}

ChatInit ==
    /\ chat_pc = "idle"
    /\ chat_request = NoChatRequest
    /\ chat_response = NoChatResponse
    /\ chat_tess = NoTessResponse
    /\ chat_calls = 0
    /\ chat_posts = 0

\* POST /api/chatbot/query
chatbot_query ==
    /\ chat_pc = "idle"
    /\ \E data \in ChatQueries, env \in Configs, reply \in ChatReplies,
          import_ok \in BOOLEAN :
          LET user_query == user_query_of(data)
              candidates == candidates_context(db_candidates)
              jobs == jobs_context(db_jobs)
              answer == process_query(TessChatbotService(env), candidates,
                                      user_query.val, reply)
              local(status, success, kind) ==
                  /\ chat_response' = ChatResponse(status, success, kind)
                  /\ UNCHANGED <<chat_tess, chat_calls, chat_posts>>
          IN  /\ chat_request' = [data |-> data, env |-> env, reply |-> reply,
                                  import_ok |-> import_ok]
              /\ IF ~user_query.ok
                 THEN local(200, Bool(FALSE), "error")
                 ELSE IF user_query.val = <<>>
                 THEN local(400, Null, "empty_query")
                 ELSE IF candidates = <<>> /\ jobs = <<>>
                 THEN local(200, Bool(TRUE), "no_data")
                 ELSE IF candidates = <<>>
                 THEN local(200, Bool(TRUE), "no_candidates")
                 ELSE IF ~import_ok
                 THEN local(200, Bool(FALSE), "import_error")
                 ELSE /\ chat_tess' = answer.response
                      /\ chat_calls' = chat_calls + 1
                      /\ chat_posts' = chat_posts + answer.posts
                      /\ chat_response' =
                            ChatResponse(200, Bool(answer.response.success), "service")
    /\ chat_pc' = "done"
    /\ UNCHANGED dvars

\* the response is sent
chatbot_query_return ==
    /\ chat_pc = "done"
    /\ chat_pc' = "idle"
    /\ chat_request' = NoChatRequest
    /\ chat_response' = NoChatResponse
    /\ chat_tess' = NoTessResponse
    /\ chat_calls' = 0
    /\ chat_posts' = 0
    /\ UNCHANGED dvars

\* ======================================================= start-up block
\* The database file: `tables` is TRUE when the tables user, job and interview
\* exist; `candidate` is "absent", "old" (the table exists without the column
\* resume_text) or "full" (the table as the model class declares it).
Schemas == [tables : BOOLEAN, candidate : {"absent", "old", "full"}]

\* db.create_all(): creates the tables that do not exist, alters none
create_all(sch) ==
    [tables |-> TRUE,
     candidate |-> IF sch.candidate = "absent" THEN "full" ELSE sch.candidate]

\* ALTER TABLE candidate ADD COLUMN resume_text TEXT
alter_table_add_resume_text(sch) ==
    IF sch.candidate = "old" THEN Ok([sch EXCEPT !.candidate = "full"])
    ELSE IF sch.candidate = "full"
    THEN Raise("OperationalError", "duplicate column name: resume_text")
    ELSE Raise("OperationalError", "no such table: candidate")

\* User/Job/Candidate/Interview.query.count(): the ORM selects every column
\* of the model class
counts_raise(sch) == ~sch.tables \/ sch.candidate # "full"

\* statements of this start-up that fail whatever the schema is (the database
\* is unreachable, locked or read-only)
BootEnvs == [create_all_ok : BOOLEAN, connect_ok : BOOLEAN, alter_ok : BOOLEAN]
NoBootEnv == [create_all_ok |-> TRUE, connect_ok |-> TRUE, alter_ok |-> TRUE]

StartupInit ==
    /\ schema = [tables |-> FALSE, candidate |-> "absent"]
    /\ boot_pc = "down"
    /\ boot_env = NoBootEnv
    /\ boots = 0
    /\ boot_log = {}
    /\ prev_boot_log = {}
    /\ schema_at_boot = schema
    /\ boot_raised = FALSE

\* a database file of any age
StartupAnyInit ==
    /\ schema \in {sch \in Schemas : sch.tables \/ sch.candidate = "absent"}
    /\ boot_pc = "down"
    /\ boot_env = NoBootEnv
    /\ boots = 0
    /\ boot_log = {}
    /\ prev_boot_log = {}
    /\ schema_at_boot = schema
    /\ boot_raised = FALSE

\* the module is loaded: with app.app_context(): try: db.create_all()
startup_create_all ==
    /\ boot_pc = "down"
    /\ boots < MaxBoots
    /\ boots' = boots + 1
    /\ schema_at_boot' = schema
    /\ prev_boot_log' = boot_log
    /\ boot_raised' = FALSE
    /\ \E env \in BootEnvs :
          /\ boot_env' = env
          /\ IF env.create_all_ok
             THEN /\ schema' = create_all(schema)
                  /\ boot_log' = {"create_all"}
                  /\ boot_pc' = "alter"
             \* except Exception as e: logger.error(...)
             ELSE /\ UNCHANGED schema
                  /\ boot_log' = {"create_all_failed"}
                  /\ boot_pc' = "up"

\* an ALTER TABLE whose failure is not caught
startup_alter_unguarded ==
    /\ boot_pc = "alter"
    /\ LET altered == alter_table_add_resume_text(schema)
       IN  IF altered.ok
           THEN /\ schema' = altered.val
                /\ boot_log' = boot_log \cup {"column_added"}
                /\ boot_pc' = "counts"
                /\ UNCHANGED boot_raised
           ELSE /\ boot_raised' = TRUE
                /\ boot_pc' = "up"
                /\ UNCHANGED <<schema, boot_log>>
    /\ UNCHANGED <<boot_env, boots, prev_boot_log, schema_at_boot>>

\* try: with db.engine.connect() as conn: try: conn.execute(ALTER ...)
\*                                        except Exception: (column exists)
\* except Exception as e: logger.warning(...)
startup_alter ==
    /\ boot_pc = "alter"
    /\ LET altered == alter_table_add_resume_text(schema)
       IN  IF ~boot_env.connect_ok
           THEN /\ boot_log' = boot_log \cup {"connect_failed"}
                /\ UNCHANGED schema
           ELSE IF ~boot_env.alter_ok
           THEN /\ boot_log' = boot_log \cup {"alter_failed"}
                /\ UNCHANGED schema
           ELSE IF altered.ok
           THEN /\ schema' = altered.val
                /\ boot_log' = boot_log \cup {"column_added"}
           ELSE /\ boot_log' = boot_log \cup {"column_exists"}
                /\ UNCHANGED schema
    /\ boot_pc' = "counts"
    /\ UNCHANGED <<boot_env, boots, prev_boot_log, schema_at_boot, boot_raised>>

\* the four count() queries; the outer except Exception catches their failure
startup_counts ==
    /\ boot_pc = "counts"
    /\ boot_log' = boot_log \cup
                   (IF counts_raise(schema) THEN {"counts_failed"} ELSE {"counted"})
    /\ boot_pc' = "up"
    /\ UNCHANGED <<schema, boot_env, boots, prev_boot_log, schema_at_boot,
                   boot_raised>>

\* the process ends; the database file stays
shutdown ==
    /\ boot_pc = "up"
    /\ boot_pc' = "down"
    /\ UNCHANGED <<schema, boot_env, boots, boot_log, prev_boot_log,
                   schema_at_boot, boot_raised>>

\* ======================================================== format_phone
\* A Brazilian phone as it is typed: the two digits of the area code, the
\* subscriber digits, whether the country code 55 is written, and the
\* punctuation: "plain" 11999999999, "punct" (11) 99999-9999, "spaced"
\* 11 999999999; with the country code: 5511999999999, +55 (11) 99999-9999,
\* +55 11 999999999.
Phone(area, subscriber, cc, fmt) ==
    [area |-> area, subscriber |-> subscriber, cc |-> cc, fmt |-> fmt]

\* the characters of the typed phone
phone_chars(ph) ==
    LET n == Len(ph.subscriber)
        first == SubSeq(ph.subscriber, 1, n - 4)
        last == SubSeq(ph.subscriber, n - 3, n)
    IN  CASE ph.fmt = "plain" ->
               (IF ph.cc THEN <<"5", "5">> ELSE <<>>) \o ph.area \o ph.subscriber
          [] ph.fmt = "punct" ->
               (IF ph.cc THEN <<"+", "5", "5", " ">> ELSE <<>>)
               \o <<"(">> \o ph.area \o <<")", " ">> \o first \o <<"-">> \o last
          [] ph.fmt = "spaced" ->
               (IF ph.cc THEN <<"+", "5", "5", " ">> ELSE <<>>)
               \o ph.area \o <<" ">> \o ph.subscriber

\* str.isdigit of one character
isdigit(ch) == ch \in {"0", "1", "2", "3", "4", "5", "6", "7", "8", "9"}

\* ''.join(filter(str.isdigit, str(phone)))
digits_of(c) == SelectSeq(c, isdigit)

\* clean.startswith('55')
startswith_55(c) == Len(c) >= 2 /\ c[1] = "5" /\ c[2] = "5"

\* whatsapp_integration.format_phone; the argument is None or a string
format_phone(phone) ==
    IF phone.t = "null" \/ phone.c = <<>> THEN Null
    ELSE LET clean == digits_of(phone.c)
         IN  IF ~startswith_55(clean) THEN Chars(<<"5", "5">> \o clean)
             ELSE Chars(clean)

\* validators.format_phone_for_whatsapp
format_phone_for_whatsapp(phone) ==
    IF phone.t = "null" \/ phone.c = <<>> THEN Null
    ELSE LET clean == digits_of(phone.c)
             prefixed == IF Len(clean) <= 11 /\ ~startswith_55(clean)
                         THEN <<"5", "5">> \o clean ELSE clean
         IN  IF Len(prefixed) >= 12 THEN Chars(prefixed) ELSE Null

AreaCodes == {<<"1", "1">>, <<"2", "1">>, <<"5", "1">>, <<"5", "5">>, <<"1", "5">>}
Subscribers ==
    {<<"9", "9", "9", "9", "9", "9", "9", "9", "9">>,
     <<"3", "2", "2", "1", "4", "5", "6", "7">>,
     <<"5", "5", "3", "2", "1", "0", "0", "0">>}
Phones == {Phone(a, sb, cc, f) : a \in AreaCodes, sb \in Subscribers,
                                 cc \in BOOLEAN, f \in {"plain", "punct", "spaced"}}

\* an argument: the typed phone and its characters; None and '' type no phone
NoPhone == Phone(<<>>, <<>>, FALSE, "none")
PhoneArgs ==
    {[typed |-> ph, value |-> Chars(phone_chars(ph))] : ph \in Phones}
    \cup {[typed |-> NoPhone, value |-> Null],
          [typed |-> NoPhone, value |-> Chars(<<>>)]}

FnInit ==
    /\ fn_pc = "idle"
    /\ fn_name = "none"
    /\ fn_input = Null
    /\ fn_output = Null

\* format_phone(phone) is called and returns
format_phone_call ==
    /\ fn_pc = "idle"
    /\ \E arg \in PhoneArgs :
          /\ fn_input' = arg
          /\ fn_output' = format_phone(arg.value)
    /\ fn_name' = "format_phone"
    /\ fn_pc' = "done"

\* format_phone_for_whatsapp(phone) is called and returns
format_phone_for_whatsapp_call ==
    /\ fn_pc = "idle"
    /\ \E arg \in PhoneArgs :
          /\ fn_input' = arg
          /\ fn_output' = format_phone_for_whatsapp(arg.value)
    /\ fn_name' = "format_phone_for_whatsapp"
    /\ fn_pc' = "done"

\* the caller has the value
fn_return ==
    /\ fn_pc = "done"
    /\ fn_pc' = "idle"
    /\ fn_name' = "none"
    /\ fn_input' = Null
    /\ fn_output' = Null

\* ================================================ the request handlers
\* the database and the upload folder as one value
Snapshot ==
    [users |-> db_users, jobs |-> db_jobs, candidates |-> db_candidates,
     interviews |-> db_interviews, uploads |-> uploads]
NoSnapshot ==
    [users |-> <<>>, jobs |-> <<>>, candidates |-> <<>>, interviews |-> <<>>,
     uploads |-> {}]

\* the row of an id in a table
HasId(table, id) == \E k \in 1..Len(table) : table[k].id = id
RowOf(table, id) == table[CHOOSE k \in 1..Len(table) : table[k].id = id]

NoWebRequest == [handler |-> "none"]
NoWebResponse == "none"

WebInit ==
    /\ db_users = <<[id |-> 1, is_admin |-> TRUE]>>
    /\ db_interviews = <<>>
    /\ web_pc = "idle"
    /\ web_request = NoWebRequest
    /\ web_response = NoWebResponse
    /\ db_prev = NoSnapshot

\* the response is sent
web_return ==
    /\ web_pc = "done"
    /\ web_pc' = "idle"
    /\ web_request' = NoWebRequest
    /\ web_response' = NoWebResponse
    /\ db_prev' = NoSnapshot
    /\ UNCHANGED <<db_users, db_interviews, dvars>>

\* ----------------------------------------------- toggle_admin, delete_user
\* current_user: the id of the logged-in user, 0 for an anonymous request
Anonymous == 0
is_admin(users, user) == HasId(users, user) /\ RowOf(users, user).is_admin

UserTables ==
    UNION {{[k \in 1..n |-> [id |-> k, is_admin |-> adm[k]]] :
               adm \in [1..n -> BOOLEAN]} : n \in 1..MaxUsers}

UsersInit ==
    /\ db_users \in UserTables
    /\ db_interviews = <<>>
    /\ web_pc = "idle"
    /\ web_request = NoWebRequest
    /\ web_response = NoWebResponse
    /\ db_prev = NoSnapshot

AdminRequests(handler) ==
    {[handler |-> handler, current_user |-> u, user_id |-> t, commit_ok |-> ok] :
        u \in {Anonymous} \cup {db_users[k].id : k \in 1..Len(db_users)},
        t \in 1..MaxUsers, ok \in BOOLEAN}

\* the statements of toggle_admin and delete_user up to the change
admin_guard(req) ==
    \* @login_required
    IF req.current_user = Anonymous THEN "redirect_login"
    \* if not current_user.is_admin
    ELSE IF ~is_admin(db_users, req.current_user) THEN "redirect_dashboard"
    \* User.query.get_or_404(user_id)
    ELSE IF ~HasId(db_users, req.user_id) THEN "404"
    \* if user.id == current_user.id
    ELSE IF req.user_id = req.current_user THEN "redirect_admin_panel_denied"
    ELSE "pass"

\* a toggle_admin that lets an administrator change their own status
toggle_admin_own_account ==
    /\ web_pc = "idle"
    /\ \E req \in AdminRequests("toggle_admin") :
          /\ web_request' = req
          /\ IF is_admin(db_users, req.current_user) /\ HasId(db_users, req.user_id)
             THEN /\ db_users' = [k \in 1..Len(db_users) |->
                        IF db_users[k].id = req.user_id
                        THEN [db_users[k] EXCEPT !.is_admin = ~@] ELSE db_users[k]]
                  /\ web_response' = "redirect_admin_panel"
             ELSE /\ UNCHANGED db_users
                  /\ web_response' = "redirect_dashboard"
    /\ db_prev' = Snapshot
    /\ web_pc' = "done"
    /\ UNCHANGED <<db_interviews, dvars>>

\* POST /admin/users/<user_id>/toggle-admin
toggle_admin ==
    /\ web_pc = "idle"
    /\ \E req \in AdminRequests("toggle_admin") :
          /\ web_request' = req
          /\ IF admin_guard(req) # "pass"
             THEN /\ web_response' = admin_guard(req)
                  /\ UNCHANGED db_users
             \* user.is_admin = not user.is_admin; db.session.commit()
             ELSE IF req.commit_ok
             THEN /\ db_users' = [k \in 1..Len(db_users) |->
                        IF db_users[k].id = req.user_id
                        THEN [db_users[k] EXCEPT !.is_admin = ~@] ELSE db_users[k]]
                  /\ web_response' = "redirect_admin_panel"
             ELSE /\ UNCHANGED db_users
                  /\ web_response' = "500"
    /\ db_prev' = Snapshot
    /\ web_pc' = "done"
    /\ UNCHANGED <<db_interviews, dvars>>

\* POST /admin/users/<user_id>/delete
delete_user ==
    /\ web_pc = "idle"
    /\ \E req \in AdminRequests("delete_user") :
          /\ web_request' = req
          /\ IF admin_guard(req) # "pass"
             THEN /\ web_response' = admin_guard(req)
                  /\ UNCHANGED db_users
             \* db.session.delete(user); db.session.commit()
             ELSE IF req.commit_ok
             THEN /\ db_users' = SelectSeq(db_users, LAMBDA u : u.id # req.user_id)
                  /\ web_response' = "redirect_admin_panel"
             ELSE /\ UNCHANGED db_users
                  /\ web_response' = "500"
    /\ db_prev' = Snapshot
    /\ web_pc' = "done"
    /\ UNCHANGED <<db_interviews, dvars>>

\* ---------------------------------------------------- import_candidates
Letters == {"a", "b", "c", "o", "n", "A"}
LocalChars == Letters \cup {"0", "1", ".", "_", "%", "+", "-"}
DomainChars == Letters \cup {"0", "1", ".", "-"}
AllIn(c, set) == \A k \in 1..Len(c) : c[k] \in set

\* validators.validate_email:
\*   ^[a-zA-Z0-9._%+-]+@[a-zA-Z0-9.-]+\.[a-zA-Z]{2,}$
validate_email(email) ==
    /\ email.t = "chars" /\ email.c # <<>>
    /\ \E i \in 1..Len(email.c), j \in 1..Len(email.c) :
          /\ email.c[i] = "@" /\ email.c[j] = "." /\ i < j
          /\ i > 1 /\ AllIn(SubSeq(email.c, 1, i - 1), LocalChars)
          /\ j > i + 1 /\ AllIn(SubSeq(email.c, i + 1, j - 1), DomainChars)
          /\ Len(email.c) - j >= 2
          /\ AllIn(SubSeq(email.c, j + 1, Len(email.c)), Letters)

\* str(cell).strip(): pandas reads an empty cell as NaN, whose str is 'nan'
NaN == Null
cell_text(cell) ==
    IF cell.t = "null" THEN <<"n", "a", "n">> ELSE strip(cell.c)

\* a row of the file, and whether the query for its email works
ImportRow(nome, email, lookup_ok) ==
    [nome |-> nome, email |-> email, lookup_ok |-> lookup_ok]

EmailA == Chars(<<"a", "@", "b", ".", "c", "o">>)
EmailB == Chars(<<"b", "@", "b", ".", "c", "o">>)
ImportRows ==
    {ImportRow(nm, em, TRUE) :
        nm \in {NaN, Chars(<<"A", "n", "a">>)},
        em \in {NaN, EmailA, EmailB, Chars(<<"a", "@", "b">>),
                Chars(<<"a", "b", ".", "c", "o">>)}}
    \cup {ImportRow(Chars(<<" ">>), EmailA, TRUE),
          ImportRow(Chars(<<"A", "n", "a">>), Chars(<<" ", "a", "@", "b", ".", "c", "o">>), TRUE),
          ImportRow(Chars(<<"A", "n", "a">>), EmailA, FALSE)}
ImportBatches == UNION {[1..n -> ImportRows] : n \in 0..MaxRows}

\* the uploaded file: "no_file" no file field, "no_name" an empty file name,
\* "bad_ext" not .csv/.xlsx/.xls, "unreadable" pandas raises, "no_columns"
\* the column nome or email is missing, "ok" a table with both columns
ImportFile(kind, rows) == [kind |-> kind, rows |-> rows]
ImportFiles ==
    {ImportFile("ok", rows) : rows \in ImportBatches}
    \cup {ImportFile(kind, <<ImportRow(Chars(<<"A", "n", "a">>), EmailA, TRUE)>>) :
             kind \in {"no_file", "no_name", "bad_ext", "unreadable", "no_columns"}}

\* the import loop without the query for an existing candidate
import_row_no_lookup(row, job_id, acc) ==
    LET name == cell_text(row.nome)
        email == cell_text(row.email)
    IN  IF name = <<"n", "a", "n">> \/ name = <<>>
           \/ email = <<"n", "a", "n">> \/ email = <<>>
        THEN Counted(acc, "error_count")
        ELSE IF ~validate_email(Chars(email)) THEN Counted(acc, "error_count")
        ELSE [Counted(acc, "success_count") EXCEPT
                 !.rows = Append(@, [email |-> Chars(email), job_id |-> job_id,
                                     resume_path |-> Null, ai_score |-> Num(50),
                                     ai_analysis |-> "dict",
                                     status |-> "pending"])]

\* the body of "for index, row in df.iterrows():"
import_row(row, job_id, acc) ==
    LET name == cell_text(row.nome)
        email == cell_text(row.email)
    IN  \* if name == 'nan' or name == '' or email == 'nan' or email == ''
        IF name = <<"n", "a", "n">> \/ name = <<>>
           \/ email = <<"n", "a", "n">> \/ email = <<>>
        THEN Counted(acc, "error_count")
        ELSE IF ~validate_email(Chars(email)) THEN Counted(acc, "error_count")
        \* the query raises: except Exception: error_count += 1
        ELSE IF ~row.lookup_ok THEN Counted(acc, "error_count")
        \* existing = Candidate.query.filter_by(email=email, job_id=job_id).first()
        ELSE IF email_taken(Chars(email), job_id, acc.rows)
        THEN Counted(acc, "error_count")
        \* db.session.add(candidate); success_count += 1
        ELSE [Counted(acc, "success_count") EXCEPT
                 !.rows = Append(@, [email |-> Chars(email), job_id |-> job_id,
                                     resume_path |-> Null, ai_score |-> Num(50),
                                     ai_analysis |-> "dict",
                                     status |-> "pending"])]

RECURSIVE import_loop(_, _, _)
import_loop(rows, job_id, acc) ==
    IF rows = <<>> THEN acc
    ELSE import_loop(Tail(rows), job_id, import_row(Head(rows), job_id, acc))

ImportResponse(kind, ok, errors) ==
    [kind |-> kind, success_count |-> ok, error_count |-> errors]

\* the candidates an import may find in the database
ImportTables ==
    {<<>>,
     <<[email |-> EmailA, job_id |-> 1, resume_path |-> Null,
        ai_score |-> Num(50), ai_analysis |-> "dict", status |-> "pending"]>>,
     <<[email |-> EmailA, job_id |-> 2, resume_path |-> Null,
        ai_score |-> Num(50), ai_analysis |-> "dict", status |-> "approved"]>>}

DbImportInit ==
    /\ db_jobs = <<[id |-> 1, status |-> "active"], [id |-> 2, status |-> "active"]>>
    /\ db_candidates \in ImportTables
    /\ uploads = {}

\* POST /jobs/<job_id>/import, for the jobs and the files given
import_request(job_ids, files) ==
    /\ web_pc = "idle"
    /\ Len(db_candidates) < MaxCandidates
    /\ \E job_id \in job_ids, file \in files, commit_ok \in BOOLEAN :
          LET acc == import_loop(file.rows, job_id,
                         [success_count |-> 0, error_count |-> 0,
                          rows |-> db_candidates])
          IN  /\ web_request' = [handler |-> "import_candidates", job_id |-> job_id,
                                 file |-> file, commit_ok |-> commit_ok]
              /\ IF ~job_exists(job_id)
                 THEN /\ web_response' = ImportResponse("404", 0, 0)
                      /\ UNCHANGED db_candidates
                 ELSE IF file.kind \in {"no_file", "no_name", "bad_ext", "no_columns"}
                 THEN /\ web_response' = ImportResponse("redirect_import", 0, 0)
                      /\ UNCHANGED db_candidates
                 \* pd.read_csv / pd.read_excel raises
                 ELSE IF file.kind = "unreadable"
                 THEN /\ web_response' = ImportResponse("render_import", 0, 0)
                      /\ UNCHANGED db_candidates
                 \* db.session.commit() raises: except Exception: rollback
                 ELSE IF ~commit_ok
                 THEN /\ web_response' = ImportResponse("render_import",
                                             acc.success_count, acc.error_count)
                      /\ UNCHANGED db_candidates
                 ELSE /\ web_response' = ImportResponse("redirect_job_detail",
                                             acc.success_count, acc.error_count)
                      /\ db_candidates' = acc.rows
    /\ db_prev' = Snapshot
    /\ web_pc' = "done"
    /\ UNCHANGED <<db_users, db_interviews, db_jobs, uploads>>

\* POST /jobs/<job_id>/import
import_candidates == import_request({1, 3}, ImportFiles)

\* ------------------------------------------------------------ delete_job
\* a candidate row as the creation handlers store it
CandidateRow(email, job_id, resume_path, ai_score, ai_analysis, status) ==
    [email |-> email, job_id |-> job_id, resume_path |-> resume_path,
     ai_score |-> ai_score, ai_analysis |-> ai_analysis, status |-> status]

\* safe_delete_file for each candidate that has a resume_path
files_of(rows) ==
    {rows[k].resume_path : k \in {j \in 1..Len(rows) : rows[j].resume_path.t # "null"}}

\* tables of candidates of the jobs 1 and 2; the k-th row's file is cv_k
JobTables ==
    UNION {{[k \in 1..n |->
               CandidateRow(Email("ana", k), pick[k][1],
                            IF pick[k][2] THEN Path("cv", k) ELSE Null,
                            Num(72), "dict", "pending")] :
               pick \in [1..n -> {<<1, TRUE>>, <<1, FALSE>>, <<2, TRUE>>}]} :
           n \in 0..MaxCandidates}

DbJobsInit ==
    /\ db_jobs \in {<<[id |-> 1, status |-> "active"]>>,
                    <<[id |-> 1, status |-> "active"], [id |-> 2, status |-> "closed"]>>}
    /\ db_candidates \in
          {t \in JobTables : \A k \in 1..Len(t) : job_exists(t[k].job_id)}
    /\ uploads = files_of(db_candidates)

\* a delete_job that deletes the job row only
delete_job_keeps_candidates ==
    /\ web_pc = "idle"
    /\ \E job_id \in 1..3, fail \in {"none", "query", "commit"} :
          /\ web_request' = [handler |-> "delete_job", job_id |-> job_id, fail |-> fail]
          /\ IF ~job_exists(job_id)
             THEN /\ web_response' = "404"
                  /\ UNCHANGED <<db_jobs, db_candidates, uploads>>
             ELSE /\ db_jobs' = SelectSeq(db_jobs, LAMBDA j : j.id # job_id)
                  /\ web_response' = "deleted"
                  /\ UNCHANGED <<db_candidates, uploads>>
    /\ db_prev' = Snapshot
    /\ web_pc' = "done"
    /\ UNCHANGED <<db_users, db_interviews>>

\* POST /jobs/<job_id>/delete
delete_job ==
    /\ web_pc = "idle"
    /\ \E job_id \in 1..3, fail \in {"none", "query", "commit"} :
          LET candidates == SelectSeq(db_candidates, LAMBDA c : c.job_id = job_id)
          IN  /\ web_request' = [handler |-> "delete_job", job_id |-> job_id,
                                 fail |-> fail]
              \* Job.query.get_or_404(job_id)
              /\ IF ~job_exists(job_id)
                 THEN /\ web_response' = "404"
                      /\ UNCHANGED <<db_jobs, db_candidates, uploads>>
                 \* the query for the candidates raises: rollback
                 ELSE IF fail = "query"
                 THEN /\ web_response' = "failed"
                      /\ UNCHANGED <<db_jobs, db_candidates, uploads>>
                 \* the files are removed, then the commit raises: rollback
                 ELSE IF fail = "commit"
                 THEN /\ web_response' = "failed"
                      /\ uploads' = uploads \ files_of(candidates)
                      /\ UNCHANGED <<db_jobs, db_candidates>>
                 ELSE /\ web_response' = "deleted"
                      /\ uploads' = uploads \ files_of(candidates)
                      /\ db_candidates' =
                            SelectSeq(db_candidates, LAMBDA c : c.job_id # job_id)
                      /\ db_jobs' = SelectSeq(db_jobs, LAMBDA j : j.id # job_id)
    /\ db_prev' = Snapshot
    /\ web_pc' = "done"
    /\ UNCHANGED <<db_users, db_interviews>>

\* --------------------------------------------------------- new_candidate
\* except Exception around the local analyzer: the emergency fallback
after_local(cd, local) ==
    IF local.ok \/ ~except_Exception(local.exc) THEN local
    ELSE Ok(_emergency_fallback(cd, local.exc.msg))

\* self.local_analyzer.analyze(candidate_data, job_requirements)
local_chain(cd, js, fault) ==
    CHOOSE r \in {after_local(cd, local) :
                     local \in {EnhancedLocalAnalyzer_analyze(cd, js, fault)}} : TRUE

\* except Exception around the Tess analyzer: on to the local analyzer
after_tess(cd, js, fault, tess) ==
    IF tess.ok \/ ~except_Exception(tess.exc) THEN tess
    ELSE local_chain(cd, js, fault)

\* AIAnalyzer.analyze_candidate as one call: Tess when it is configured, the
\* local analyzer when Tess raises, the emergency payload when both raise
analyze_candidate(cfg, cd, js, reply, fault) ==
    IF tess_analyzer(cfg)
    THEN CHOOSE r \in {after_tess(cd, js, fault, tess) :
                          tess \in {TessAnalyzer_analyze(cd, reply)}} : TRUE
    ELSE local_chain(cd, js, fault)

\* what the analyzer meets during a request: its configuration, the reply of
\* the remote agent and the fault of the local analyzer
AnalysisEnv(configured, reply, fault) ==
    [config |-> [pareto_api_key |-> configured, agent_id |-> configured],
     reply |-> reply, fault |-> fault]

TessAnswers ==
    HttpReply(200, JsonBody(JsonText(FullAnalysis(Num(70))), NoFallback))

AnalysisEnvs ==
    {AnalysisEnv(TRUE, TessAnswers, "none"),
     AnalysisEnv(TRUE, [kind |-> "timeout"], "none"),
     AnalysisEnv(FALSE, NoReply, "none"),
     AnalysisEnv(TRUE, [kind |-> "timeout"], "ImportError"),
     AnalysisEnv(FALSE, NoReply, "UnicodeEncodeError")}

\* the text extracted from an uploaded resume, as the analyzers read it
ResumeCV == CV(1..2, FALSE, 8, "none", 6, 2, 1, 4, 4)

\* candidate_data = {'name': ..., 'resume_text': ...} and the job's skills
analysis_of(env) ==
    analyze_candidate(env.config, [contact |-> FALSE, resume_text |-> ResumeCV],
                      2..3, env.reply, env.fault)

\* the dictionary the handlers build when analyze_candidate raises; 50 points
manual_review_score == 500
manual_analysis ==
    [overall_score |-> manual_review_score,
     recommendation |-> "Analise manual necessaria"]

\* "try: ai_analysis = analyze_candidate(...) except Exception: ai_analysis = {...}"
ai_analysis_of(analysis) == IF analysis.ok THEN analysis.val ELSE manual_analysis

\* json.dumps(ai_analysis): the text of the dictionary, by the keys read back
json_dumps(d) ==
    [t |-> "json", overall_score |-> d.overall_score,
     recommendation |-> d.recommendation,
     provider |-> IF "provider" \in DOMAIN d THEN d.provider ELSE "none"]

\* validators.validate_phone
validate_phone(phone) ==
    phone # <<>> /\ Len(digits_of(phone)) \in {10, 11}

\* validators.sanitize_filename: <name>_<timestamp><ext>, `now` is the second
sanitize_filename(filename, now) == Path(filename.stem, now)

\* the form of a request: request.form.get(field, '')
Form(name, email, phone) == [name |-> name, email |-> email, phone |-> phone]
GoodPhone == phone_chars(Phone(<<"1", "1">>, <<"9", "9", "9", "9", "9", "9", "9", "9", "9">>, FALSE, "plain"))
GoodForm == Form(<<"A", "n", "a">>, EmailA.c, GoodPhone)
Forms ==
    {[GoodForm EXCEPT !.name = n] : n \in {<<>>, <<" ">>, <<" ", "A", "n", "a">>}}
    \cup {[GoodForm EXCEPT !.email = e] :
             e \in {<<>>, <<" ">>, <<"a", "@", "b">>, <<"b", "@", "b", ".", "c", "o", " ">>}}
    \cup {[GoodForm EXCEPT !.phone = p] :
             p \in {<<>>, <<" ">>, <<"1", "1", "9">>,
                    phone_chars(Phone(<<"1", "1">>, <<"3", "2", "2", "1", "4", "5", "6", "7">>, FALSE, "punct")),
                    phone_chars(Phone(<<"1", "1">>, <<"9", "9", "9", "9", "9", "9", "9", "9", "9">>, TRUE, "plain"))}}

\* a POST of the form: one thing at most differs from a request that is stored
NewCandidatePost(form, file, env, commit_ok) ==
    [method |-> "POST", form |-> form, file |-> file, env |-> env,
     commit_ok |-> commit_ok]
GoodPost ==
    NewCandidatePost(GoodForm, GoodPdf("ana", "pdf", "ana"),
                     AnalysisEnv(FALSE, NoReply, "none"), TRUE)
NewCandidateRequests ==
    {[GoodPost EXCEPT !.method = "GET"], [GoodPost EXCEPT !.commit_ok = FALSE]}
    \cup {[GoodPost EXCEPT !.form = f] : f \in Forms}
    \cup {[GoodPost EXCEPT !.file = u] : u \in UploadFiles \cup {Null}}
    \cup {[GoodPost EXCEPT !.env = e] : e \in AnalysisEnvs}

\* how new_candidate ends: the response, the row it stores (Null: none) and
\* the upload folder
Handled(response, row, folder) ==
    [response |-> response, row |-> row, folder |-> folder]

\* new_candidate from the analysis on: `analysis` is what analyze_candidate did
new_candidate_analysed(req, job_id, email, filepath, folder, analysis) ==
    \* an exception that `except Exception` does not catch leaves the handler
    IF ~analysis.ok /\ ~except_Exception(analysis.exc)
    THEN Handled("500", Null, folder \cup {filepath})
    \* db.session.commit() raises: rollback, safe_delete_file(filepath)
    ELSE IF ~req.commit_ok
    THEN Handled("render_new_candidate", Null, folder \ {filepath})
    ELSE Handled("redirect_candidate_detail",
                 CandidateRow(Chars(email), job_id, filepath,
                              Num(ai_analysis_of(analysis).overall_score),
                              json_dumps(ai_analysis_of(analysis)), "pending"),
                 folder \cup {filepath})

\* the POST branch of new_candidate, for a job that exists
new_candidate_post(req, job_id, now, folder) ==
    LET name == strip(req.form.name)
        email == strip(req.form.email)
        phone == strip(req.form.phone)
        file == req.file
        filepath == sanitize_filename(file.filename, now)
        rejected == Handled("render_new_candidate", Null, folder)
        \* safe_delete_file(filepath), after file.save(filepath)
        removed == Handled("render_new_candidate", Null, folder \ {filepath})
    IN  IF name = <<>> THEN rejected
        ELSE IF email = <<>> THEN rejected
        ELSE IF phone = <<>> THEN rejected
        ELSE IF ~validate_email(Chars(email)) THEN rejected
        ELSE IF ~validate_phone(phone) THEN rejected
        \* if not file or not file.filename
        ELSE IF file = Null THEN rejected
        ELSE IF file.filename = EmptyName THEN rejected
        ELSE IF ~allowed_file(file.filename) THEN rejected
        ELSE IF ~validate_file_size(file) THEN rejected
        \* file.save(filepath) raises: the outer except removes filepath
        ELSE IF ~file.save_ok THEN removed
        ELSE IF ~validate_pdf_content(file) THEN removed
        ELSE IF text_too_short(file) THEN removed
        \* ai_analysis = ai_analyzer.analyze_candidate(...)
        ELSE CHOOSE done \in
                 {new_candidate_analysed(req, job_id, email, filepath, folder, analysis) :
                     analysis \in {analysis_of(req.env)}} : TRUE

\* a new_candidate that leaves the saved file when too little text is extracted
new_candidate_keeps_file ==
    /\ web_pc = "idle"
    /\ Len(db_candidates) < MaxCandidates
    /\ \E job_id \in {1, 3}, req \in NewCandidateRequests, now \in 0..1 :
          LET done == new_candidate_post(req, job_id, now, uploads)
              short == /\ done.response = "render_new_candidate"
                       /\ req.file # Null /\ req.file.save_ok
                       /\ text_too_short(req.file)
          IN  /\ web_request' = [handler |-> "new_candidate", job_id |-> job_id,
                                 now |-> now, post |-> req]
              /\ IF ~job_exists(job_id)
                 THEN /\ web_response' = "404"
                      /\ UNCHANGED <<db_candidates, uploads>>
                 ELSE IF req.method = "GET"
                 THEN /\ web_response' = "render_new_candidate"
                      /\ UNCHANGED <<db_candidates, uploads>>
                 ELSE /\ web_response' = done.response
                      /\ uploads' = IF short
                                    THEN uploads \cup {sanitize_filename(req.file.filename, now)}
                                    ELSE done.folder
                      /\ db_candidates' = IF done.row = Null THEN db_candidates
                                          ELSE Append(db_candidates, done.row)
    /\ db_prev' = Snapshot
    /\ web_pc' = "done"
    /\ UNCHANGED <<db_users, db_interviews, db_jobs>>

\* GET or POST /candidates/new/<job_id>, for the jobs, the requests and the
\* seconds of the clock given
new_candidate_request(job_ids, requests, seconds) ==
    /\ web_pc = "idle"
    /\ Len(db_candidates) < MaxCandidates
    /\ \E job_id \in job_ids, req \in requests, now \in seconds :
          \E done \in {new_candidate_post(req, job_id, now, uploads)} :
              /\ web_request' = [handler |-> "new_candidate", job_id |-> job_id,
                                 now |-> now, post |-> req]
              \* Job.query.get_or_404(job_id)
              /\ IF ~job_exists(job_id)
                 THEN /\ web_response' = "404"
                      /\ UNCHANGED <<db_candidates, uploads>>
                 ELSE IF req.method = "GET"
                 THEN /\ web_response' = "render_new_candidate"
                      /\ UNCHANGED <<db_candidates, uploads>>
                 ELSE /\ web_response' = done.response
                      /\ uploads' = done.folder
                      /\ db_candidates' = IF done.row = Null THEN db_candidates
                                          ELSE Append(db_candidates, done.row)
    /\ db_prev' = Snapshot
    /\ web_pc' = "done"
    /\ UNCHANGED <<db_users, db_interviews, db_jobs>>

\* GET or POST /candidates/new/<job_id>
new_candidate == new_candidate_request({1, 3}, NewCandidateRequests, 0..1)

\* ------------------------------- update_candidate_status, new_interview
\* the id of a candidate is its position in the table (no row is deleted by
\* the handlers below)
candidate_exists(candidate_id) == candidate_id \in 1..Len(db_candidates)

\* the ids the requests name: two rows and a row that does not exist
CandidateIds == {1, 2, MaxCandidates + 1}

\* the list update_candidate_status accepts
valid_statuses == {"pending", "interview", "approved", "rejected"}

\* request.form.get('status'): None when the field is absent
StatusValues ==
    {Null} \cup {Str(s) : s \in valid_statuses \cup {"", "hired", "Approved"}}

\* an update_candidate_status that stores whatever the form carries
update_candidate_status_unchecked ==
    /\ web_pc = "idle"
    /\ \E candidate_id \in CandidateIds, new_status \in StatusValues,
          commit_ok \in BOOLEAN :
          /\ web_request' = [handler |-> "update_candidate_status",
                             candidate_id |-> candidate_id,
                             new_status |-> new_status, commit_ok |-> commit_ok]
          /\ IF ~candidate_exists(candidate_id)
             THEN /\ web_response' = "404"
                  /\ UNCHANGED db_candidates
             ELSE IF new_status.t = "str"
             THEN IF commit_ok
                  THEN /\ web_response' = "redirect_candidate_detail"
                       /\ db_candidates' =
                             [db_candidates EXCEPT ![candidate_id].status = new_status.s]
                  ELSE /\ web_response' = "500"
                       /\ UNCHANGED db_candidates
             ELSE /\ web_response' = "redirect_candidate_detail"
                  /\ UNCHANGED db_candidates
    /\ db_prev' = Snapshot
    /\ web_pc' = "done"
    /\ UNCHANGED <<db_users, db_interviews, db_jobs, uploads>>

\* POST /candidates/<candidate_id>/status
update_candidate_status ==
    /\ web_pc = "idle"
    /\ \E candidate_id \in CandidateIds, new_status \in StatusValues,
          commit_ok \in BOOLEAN :
          /\ web_request' = [handler |-> "update_candidate_status",
                             candidate_id |-> candidate_id,
                             new_status |-> new_status, commit_ok |-> commit_ok]
          \* Candidate.query.get_or_404(candidate_id)
          /\ IF ~candidate_exists(candidate_id)
             THEN /\ web_response' = "404"
                  /\ UNCHANGED db_candidates
             \* if new_status in ['pending', 'interview', 'approved', 'rejected']
             ELSE IF new_status.t = "str" /\ new_status.s \in valid_statuses
             THEN \* db.session.commit(); when it raises nothing is written
                  IF commit_ok
                  THEN /\ web_response' = "redirect_candidate_detail"
                       /\ db_candidates' =
                             [db_candidates EXCEPT ![candidate_id].status = new_status.s]
                  ELSE /\ web_response' = "500"
                       /\ UNCHANGED db_candidates
             ELSE /\ web_response' = "redirect_candidate_detail"
                  /\ UNCHANGED db_candidates
    /\ db_prev' = Snapshot
    /\ web_pc' = "done"
    /\ UNCHANGED <<db_users, db_interviews, db_jobs, uploads>>

\* the form of new_interview: candidate_id and job_id are None when absent,
\* title is a text, `when` says what date and time hold: "absent", "invalid"
\* (strptime raises ValueError), "past" or "future"
InterviewForm(candidate_id, job_id, title, when) ==
    [candidate_id |-> candidate_id, job_id |-> job_id, title |-> title,
     when |-> when]
InterviewForms ==
    {InterviewForm(Num(c), Num(1), <<"t">>, "future") : c \in CandidateIds}
    \cup {InterviewForm(Null, Num(1), <<"t">>, "future"),
          InterviewForm(Num(1), Null, <<"t">>, "future"),
          InterviewForm(Num(1), Num(1), <<" ">>, "future")}
    \cup {InterviewForm(Num(1), Num(1), <<"t">>, w) : w \in {"absent", "invalid", "past"}}

\* a request of new_interview: one thing at most differs from one that is stored
InterviewRequest(method, form, commit_ok) ==
    [handler |-> "new_interview", method |-> method, form |-> form,
     commit_ok |-> commit_ok]
InterviewRequests ==
    {InterviewRequest("POST", f, TRUE) : f \in InterviewForms}
    \cup {InterviewRequest("GET", InterviewForm(Null, Null, <<>>, "absent"), TRUE),
          InterviewRequest("POST", InterviewForm(Num(1), Num(1), <<"t">>, "future"), FALSE)}

\* "if not all([candidate_id, job_id, title, date_str, time_str])"
all_required(form) ==
    /\ form.candidate_id.t # "null" /\ form.job_id.t # "null"
    /\ strip(form.title) # <<>> /\ form.when # "absent"

\* GET or POST /interviews/new
new_interview ==
    /\ web_pc = "idle"
    /\ Len(db_interviews) < MaxInterviews
    /\ \E req \in InterviewRequests :
          LET method == req.method
              form == req.form
              commit_ok == req.commit_ok
          IN  \* the block below "if request.method == 'POST':"
          /\ web_request' = req
          /\ IF method = "GET"
             THEN /\ web_response' = "render_new_interview"
                  /\ UNCHANGED <<db_interviews, db_candidates>>
             ELSE IF ~all_required(form)
             THEN /\ web_response' = "redirect_new_interview"
                  /\ UNCHANGED <<db_interviews, db_candidates>>
             \* except ValueError, and the date in the past
             ELSE IF form.when \in {"invalid", "past"}
             THEN /\ web_response' = "redirect_new_interview"
                  /\ UNCHANGED <<db_interviews, db_candidates>>
             \* db.session.commit() raises: except Exception: rollback
             ELSE IF ~commit_ok
             THEN /\ web_response' = "render_new_interview"
                  /\ UNCHANGED <<db_interviews, db_candidates>>
             ELSE /\ web_response' = "redirect_interview_detail"
                  /\ db_interviews' =
                        Append(db_interviews,
                               [candidate_id |-> form.candidate_id.v,
                                job_id |-> form.job_id.v, status |-> "scheduled"])
                  \* if candidate and candidate.status == 'pending'
                  /\ db_candidates' =
                        IF /\ candidate_exists(form.candidate_id.v)
                           /\ db_candidates[form.candidate_id.v].status = "pending"
                        THEN [db_candidates EXCEPT
                                 ![form.candidate_id.v].status = "interview"]
                        ELSE db_candidates
    /\ db_prev' = Snapshot
    /\ web_pc' = "done"
    /\ UNCHANGED <<db_users, db_jobs, uploads>>

\* ------------------------------------------- the creation of candidates
\* the three handlers that create candidates, for one request each that is
\* stored and the same request when its commit fails, while the table has
\* fewer than MaxStatusRows rows
one_new_candidate ==
    /\ Len(db_candidates) < MaxStatusRows
    /\ new_candidate_request({1}, {GoodPost, [GoodPost EXCEPT !.commit_ok = FALSE]}, {0})

one_bulk_upload ==
    /\ Len(db_candidates) < MaxStatusRows
    /\ bulk_upload_request({1}, {<<GoodPdf("ana", "pdf", "ana")>>})

one_import ==
    /\ Len(db_candidates) < MaxStatusRows
    /\ import_request({1}, {ImportFile("ok", <<ImportRow(Chars(<<"A", "n", "a">>), EmailA, TRUE)>>)})

\* ------------------- reanalyze_candidate, reanalyze_all_candidates_for_job
\* a stored candidate together with its resume_text: the text of a resume as
\* the analyzers read it, or None for a row older than the column
WithResumeText(row, resume_text) == row @@ [resume_text |-> resume_text]

\* the analysis new_candidate stored for the candidate, 68 points
StoredAnalysis ==
    [t |-> "json", overall_score |-> 680, recommendation |-> RECOMMENDED,
     provider |-> ENHANCED_LOCAL]

ReanalyzeRows ==
    {WithResumeText(CandidateRow(EmailA, j, Path("cv", 0), Num(StoredAnalysis.overall_score),
                                 StoredAnalysis, "pending"), text) :
        j \in {1, 2}, text \in {ResumeCV, Null}}

\* tables of candidates of the jobs 1 and 2
ReanalyzeTables == UNION {[1..n -> ReanalyzeRows] : n \in 0..MaxReanalyzed}

DbReanalyzeInit ==
    /\ db_jobs = <<[id |-> 1, status |-> "active"], [id |-> 2, status |-> "active"]>>
    /\ db_candidates \in ReanalyzeTables
    /\ uploads = files_of(db_candidates)

\* what the analyzer meets while one candidate is analysed again
ReanalysisEnvs ==
    {AnalysisEnv(TRUE, TessAnswers, "none"),
     AnalysisEnv(FALSE, NoReply, "none"),
     AnalysisEnv(TRUE, [kind |-> "timeout"], "ImportError")}

\* ai_analyzer.analyze_candidate(candidate_data, job_requirements) for a row
reanalysis_of(row, env) ==
    analyze_candidate(env.config, [contact |-> FALSE, resume_text |-> row.resume_text],
                      2..3, env.reply, env.fault)

\* the body of the try of both handlers, for one candidate: "updated" with the
\* new row, "incomplete" (no overall_score in the answer) or "raised"
reanalyzed(row, new_analysis) ==
    IF ~new_analysis.ok THEN [kind |-> "raised", row |-> row]
    \* if 'overall_score' in new_analysis
    ELSE IF "overall_score" \in DOMAIN new_analysis.val
    THEN [kind |-> "updated",
          row |-> [row EXCEPT !.ai_score = Num(new_analysis.val.overall_score),
                              !.ai_analysis = json_dumps(new_analysis.val)]]
    ELSE [kind |-> "incomplete", row |-> row]

reanalyze_row(row, env) ==
    CHOOSE done \in {reanalyzed(row, new_analysis) :
                        new_analysis \in {reanalysis_of(row, env)}} : TRUE

\* POST /candidate/<candidate_id>/reanalyze; every answer is a redirect to the
\* page of the candidate, with the message flashed
reanalyze_candidate ==
    /\ web_pc = "idle"
    /\ \E candidate_id \in CandidateIds, env \in ReanalysisEnvs, commit_ok \in BOOLEAN :
          LET candidate == db_candidates[candidate_id]
          IN  /\ web_request' = [handler |-> "reanalyze_candidate",
                                 candidate_id |-> candidate_id, env |-> env,
                                 commit_ok |-> commit_ok]
              \* Candidate.query.get_or_404, Job.query.get_or_404
              /\ IF ~candidate_exists(candidate_id) \/ ~job_exists(candidate.job_id)
                 THEN /\ web_response' = "404"
                      /\ UNCHANGED db_candidates
                 \* if not resume_text
                 ELSE IF candidate.resume_text = Null
                 THEN /\ web_response' = "flash_no_resume_text"
                      /\ UNCHANGED db_candidates
                 ELSE \E done \in {reanalyze_row(candidate, env)} :
                      \* except Exception, or no overall_score in the answer
                      IF done.kind \in {"raised", "incomplete"}
                      THEN /\ web_response' = "flash_error"
                           /\ UNCHANGED db_candidates
                      \* db.session.commit() raises: except Exception
                      ELSE IF ~commit_ok
                      THEN /\ web_response' = "flash_error"
                           /\ UNCHANGED db_candidates
                      ELSE /\ web_response' = "flash_success"
                           /\ db_candidates' =
                                 [db_candidates EXCEPT ![candidate_id] = done.row]
    /\ db_prev' = Snapshot
    /\ web_pc' = "done"
    /\ UNCHANGED <<db_users, db_interviews, db_jobs, uploads>>

\* the body of "for candidate in candidates:" for row k
counted_reanalysis(acc, k, done) ==
    IF done.kind = "updated"
    THEN [Counted(acc, "success_count") EXCEPT !.rows[k] = done.row]
    ELSE Counted(acc, "error_count")
reanalyze_one(candidate, k, job_id, env, acc) ==
    IF candidate.job_id # job_id THEN acc
    \* if not candidate.resume_text: error_count += 1; continue
    ELSE IF candidate.resume_text = Null THEN Counted(acc, "error_count")
    ELSE CHOOSE next \in {counted_reanalysis(acc, k, done) :
                             done \in {reanalyze_row(candidate, env)}} : TRUE

\* "for candidate in candidates:" of reanalyze_all_candidates_for_job, from
\* row k on; envs[k] is what the analyzer meets for row k
RECURSIVE reanalyze_loop(_, _, _, _)
reanalyze_loop(k, job_id, envs, acc) ==
    IF k > Len(acc.rows) THEN acc
    ELSE CHOOSE end \in
             {reanalyze_loop(k + 1, job_id, envs, next) :
                 next \in {reanalyze_one(acc.rows[k], k, job_id, envs[k], acc)}} : TRUE

ReanalyzeResponse(kind, ok, errors) ==
    [kind |-> kind, success_count |-> ok, error_count |-> errors]

\* POST /jobs/<job_id>/reanalyze-all
reanalyze_all_candidates_for_job ==
    /\ web_pc = "idle"
    /\ \E job_id \in 1..3, envs \in [1..Len(db_candidates) -> ReanalysisEnvs],
          commit_ok \in BOOLEAN :
          \E acc \in {reanalyze_loop(1, job_id, envs,
                          [success_count |-> 0, error_count |-> 0,
                           rows |-> db_candidates])} :
              /\ web_request' = [handler |-> "reanalyze_all_candidates_for_job",
                                 job_id |-> job_id, envs |-> envs,
                                 commit_ok |-> commit_ok]
              /\ IF ~job_exists(job_id)
                 THEN /\ web_response' = ReanalyzeResponse("404", 0, 0)
                      /\ UNCHANGED db_candidates
                 \* if not candidates
                 ELSE IF \A k \in 1..Len(db_candidates) : db_candidates[k].job_id # job_id
                 THEN /\ web_response' = ReanalyzeResponse("flash_no_candidates", 0, 0)
                      /\ UNCHANGED db_candidates
                 \* db.session.commit() raises: rollback
                 ELSE IF ~commit_ok
                 THEN /\ web_response' = ReanalyzeResponse("flash_error",
                                             acc.success_count, acc.error_count)
                      /\ UNCHANGED db_candidates
                 ELSE /\ web_response' = ReanalyzeResponse("flash_success",
                                             acc.success_count, acc.error_count)
                      /\ db_candidates' = acc.rows
    /\ db_prev' = Snapshot
    /\ web_pc' = "done"
    /\ UNCHANGED <<db_users, db_interviews, db_jobs, uploads>>

\* --------------------------------------------- _calculate_advanced_metrics
\* a candidate of the chatbot context: score_geral in tenths of a point and
\* senioridade, each of them Absent when the dictionary lacks the key
MetricCandidate(score_geral, senioridade) ==
    [score_geral |-> score_geral, senioridade |-> senioridade]

\* c.get('score_geral', 0)
get_score_geral(c) == IF c.score_geral = Absent THEN 0 ELSE c.score_geral.v

\* c.get('senioridade', 'Nao detectado')
get_senioridade(c) ==
    IF c.senioridade = Absent THEN "Nao detectado" ELSE c.senioridade.s

\* sum(1 for c in candidates if test(c))
count_high(candidates) ==
    Cardinality({k \in 1..Len(candidates) : get_score_geral(candidates[k]) >= 80})
\* a middle band that includes 8.0
count_mid_inclusive(candidates) ==
    Cardinality({k \in 1..Len(candidates) :
                    60 <= get_score_geral(candidates[k])
                    /\ get_score_geral(candidates[k]) <= 80})
count_mid(candidates) ==
    Cardinality({k \in 1..Len(candidates) :
                    60 <= get_score_geral(candidates[k])
                    /\ get_score_geral(candidates[k]) < 80})
count_low(candidates) ==
    Cardinality({k \in 1..Len(candidates) : get_score_geral(candidates[k]) < 60})

\* for c in candidates: seniority_dist[sen] = seniority_dist.get(sen, 0) + 1
RECURSIVE seniority_count(_, _)
seniority_count(candidates, dist) ==
    IF candidates = <<>> THEN dist
    ELSE LET sen == get_senioridade(Head(candidates))
             seen == IF sen \in DOMAIN dist THEN dist[sen] ELSE 0
         IN  seniority_count(Tail(candidates),
                 [s \in DOMAIN dist \cup {sen} |->
                     IF s = sen THEN seen + 1 ELSE dist[s]])

\* sum(c.get('score_geral', 0) for c in candidates)
RECURSIVE sum_score_geral(_)
sum_score_geral(candidates) ==
    IF candidates = <<>> THEN 0
    ELSE get_score_geral(Head(candidates)) + sum_score_geral(Tail(candidates))

\* TessChatbotService._calculate_advanced_metrics; the averages are kept as
\* the sum and the number of candidates, mid_performers and low_performers
\* are the numbers printed in the summary
_calculate_advanced_metrics(candidates) ==
    IF candidates = <<>> THEN [summary |-> "Sem candidatos para analise"]
    ELSE [summary |-> "metrics",
          avg_overall |-> <<sum_score_geral(candidates), Len(candidates)>>,
          high_performers |-> count_high(candidates),
          mid_performers |-> count_mid(candidates),
          low_performers |-> count_low(candidates),
          seniority_dist |-> seniority_count(candidates, <<>>)]

MetricScores == {Absent, Num(0), Num(59), Num(60), Num(79), Num(80), Num(100)}
MetricSeniorities == {Absent, Str("Senior"), Str("Nao especificado")}
MetricCandidates ==
    {MetricCandidate(sc, sen) : sc \in MetricScores, sen \in MetricSeniorities}
MetricLists == UNION {[1..n -> MetricCandidates] : n \in 0..MaxMetricRows}

\* _calculate_advanced_metrics(candidates, jobs) is called and returns
_calculate_advanced_metrics_call ==
    /\ fn_pc = "idle"
    /\ \E candidates \in MetricLists :
          /\ fn_input' = candidates
          /\ fn_output' = _calculate_advanced_metrics(candidates)
    /\ fn_name' = "_calculate_advanced_metrics"
    /\ fn_pc' = "done"

\* ========================================================== specifications
vars == <<avars, pvars, dvars, bvars, cvars, svars, fvars, wvars>>

\* the analyzer object of a process whose environment configures nothing
AnalyzerOff == AnalyzerInit /\ config = [pareto_api_key |-> FALSE, agent_id |-> FALSE]

\* the provider chain of ai_analyzer.py
Init == AnalyzerInit /\ PdfInit /\ DbInit /\ BulkInit /\ ChatInit
    /\ StartupInit /\ FnInit /\ WebInit
Next ==
    \/ analyze_candidate_enter /\ UNCHANGED <<pvars, dvars, bvars, cvars
          , svars, fvars, wvars>>
    \/ analyze_candidate_tess /\ UNCHANGED <<pvars, dvars, bvars, cvars
          , svars, fvars, wvars>>
    \/ analyze_candidate_local /\ UNCHANGED <<pvars, dvars, bvars, cvars
          , svars, fvars, wvars>>
    \/ analyze_candidate_emergency /\ UNCHANGED <<pvars, dvars, bvars, cvars
          , svars, fvars, wvars>>
    \/ analyze_candidate_return /\ UNCHANGED <<pvars, dvars, bvars, cvars
          , svars, fvars, wvars>>
Spec == Init /\ [][Next]_vars

\* extract_text_from_pdf
InitPdf == AnalyzerOff /\ PdfInit /\ DbInit /\ BulkInit /\ ChatInit
    /\ StartupInit /\ FnInit /\ WebInit
NextPdf ==
    \/ extract_text_enter /\ UNCHANGED <<avars, dvars, bvars, cvars, svars
          , fvars, wvars>>
    \/ extract_text_pdfplumber /\ UNCHANGED <<avars, dvars, bvars, cvars
          , svars, fvars, wvars>>
    \/ extract_text_PyPDF2 /\ UNCHANGED <<avars, dvars, bvars, cvars, svars
          , fvars, wvars>>
    \/ extract_text_return /\ UNCHANGED <<avars, dvars, bvars, cvars, svars
          , fvars, wvars>>
SpecPdf == InitPdf /\ [][NextPdf]_vars

\* bulk upload
InitBulk == AnalyzerOff /\ PdfInit /\ DbInit /\ BulkInit /\ ChatInit
    /\ StartupInit /\ FnInit /\ WebInit
NextBulk ==
    \/ bulk_upload_candidates /\ UNCHANGED <<avars, pvars, cvars, svars
          , fvars, wvars>>
    \/ bulk_upload_return /\ UNCHANGED <<avars, pvars, cvars, svars, fvars
          , wvars>>
SpecBulk == InitBulk /\ [][NextBulk]_vars

\* the chatbot
InitChat == AnalyzerOff /\ PdfInit /\ DbChatInit /\ BulkInit /\ ChatInit
    /\ StartupInit /\ FnInit /\ WebInit
NextChat ==
    \/ chatbot_query /\ UNCHANGED <<avars, pvars, bvars, svars, fvars, wvars>>
    \/ chatbot_query_return /\ UNCHANGED <<avars, pvars, bvars, svars, fvars
          , wvars>>
SpecChat == InitChat /\ [][NextChat]_vars

\* the start-up block of app.py
InitStartup == AnalyzerOff /\ PdfInit /\ DbInit /\ BulkInit /\ ChatInit
    /\ StartupAnyInit /\ FnInit /\ WebInit
NextStartup ==
    \/ startup_create_all /\ UNCHANGED <<avars, pvars, dvars, bvars, cvars
          , fvars, wvars>>
    \/ startup_alter /\ UNCHANGED <<avars, pvars, dvars, bvars, cvars, fvars
          , wvars>>
    \/ startup_counts /\ UNCHANGED <<avars, pvars, dvars, bvars, cvars
          , fvars, wvars>>
    \/ shutdown /\ UNCHANGED <<avars, pvars, dvars, bvars, cvars, fvars
          , wvars>>
SpecStartup == InitStartup /\ [][NextStartup]_vars

\* format_phone and format_phone_for_whatsapp
InitPhone == AnalyzerOff /\ PdfInit /\ DbInit /\ BulkInit /\ ChatInit
    /\ StartupInit /\ FnInit /\ WebInit
NextPhone ==
    \/ format_phone_call /\ UNCHANGED <<avars, pvars, dvars, bvars, cvars
          , svars, wvars>>
    \/ format_phone_for_whatsapp_call /\ UNCHANGED <<avars, pvars, dvars
          , bvars, cvars, svars, wvars>>
    \/ fn_return /\ UNCHANGED <<avars, pvars, dvars, bvars, cvars, svars
          , wvars>>
SpecPhone == InitPhone /\ [][NextPhone]_vars

\* administration of the users
InitUsers == AnalyzerOff /\ PdfInit /\ DbInit /\ BulkInit /\ ChatInit
    /\ StartupInit /\ FnInit /\ UsersInit
NextUsers ==
    \/ toggle_admin /\ UNCHANGED <<avars, pvars, bvars, cvars, svars, fvars>>
    \/ delete_user /\ UNCHANGED <<avars, pvars, bvars, cvars, svars, fvars>>
    \/ web_return /\ UNCHANGED <<avars, pvars, bvars, cvars, svars, fvars>>
SpecUsers == InitUsers /\ [][NextUsers]_vars

\* import of candidates from CSV/Excel
InitImport == AnalyzerOff /\ PdfInit /\ DbImportInit /\ BulkInit /\ ChatInit
    /\ StartupInit /\ FnInit /\ WebInit
NextImport ==
    \/ import_candidates /\ UNCHANGED <<avars, pvars, bvars, cvars, svars
          , fvars>>
    \/ web_return /\ UNCHANGED <<avars, pvars, bvars, cvars, svars, fvars>>
SpecImport == InitImport /\ [][NextImport]_vars

\* deletion of a job
InitDeleteJob == AnalyzerOff /\ PdfInit /\ DbJobsInit /\ BulkInit
    /\ ChatInit /\ StartupInit /\ FnInit /\ WebInit
NextDeleteJob ==
    \/ delete_job /\ UNCHANGED <<avars, pvars, bvars, cvars, svars, fvars>>
    \/ web_return /\ UNCHANGED <<avars, pvars, bvars, cvars, svars, fvars>>
SpecDeleteJob == InitDeleteJob /\ [][NextDeleteJob]_vars

\* new_candidate
InitNewCandidate == AnalyzerOff /\ PdfInit /\ DbInit /\ BulkInit /\ ChatInit
    /\ StartupInit /\ FnInit /\ WebInit
NextNewCandidate ==
    \/ new_candidate /\ UNCHANGED <<avars, pvars, bvars, cvars, svars, fvars>>
    \/ web_return /\ UNCHANGED <<avars, pvars, bvars, cvars, svars, fvars>>
SpecNewCandidate == InitNewCandidate /\ [][NextNewCandidate]_vars

\* the handlers that create a candidate or write its status
InitStatus == AnalyzerOff /\ PdfInit /\ DbInit /\ BulkInit /\ ChatInit
    /\ StartupInit /\ FnInit /\ WebInit
NextStatus ==
    \/ one_bulk_upload /\ UNCHANGED <<avars, pvars, cvars, svars, fvars
          , wvars>>
    \/ bulk_upload_return /\ UNCHANGED <<avars, pvars, cvars, svars, fvars
          , wvars>>
    \/ one_import /\ UNCHANGED <<avars, pvars, bvars, cvars, svars, fvars>>
    \/ one_new_candidate /\ UNCHANGED <<avars, pvars, bvars, cvars, svars
          , fvars>>
    \/ update_candidate_status /\ UNCHANGED <<avars, pvars, bvars, cvars
          , svars, fvars>>
    \/ new_interview /\ UNCHANGED <<avars, pvars, bvars, cvars, svars, fvars>>
    \/ web_return /\ UNCHANGED <<avars, pvars, bvars, cvars, svars, fvars>>
SpecStatus == InitStatus /\ [][NextStatus]_vars

\* reanalyze_candidate and reanalyze_all_candidates_for_job
InitReanalyze == AnalyzerOff /\ PdfInit /\ DbReanalyzeInit /\ BulkInit
    /\ ChatInit /\ StartupInit /\ FnInit /\ WebInit
NextReanalyze ==
    \/ reanalyze_candidate /\ UNCHANGED <<avars, pvars, bvars, cvars, svars
          , fvars>>
    \/ reanalyze_all_candidates_for_job /\ UNCHANGED <<avars, pvars, bvars
          , cvars, svars, fvars>>
    \/ web_return /\ UNCHANGED <<avars, pvars, bvars, cvars, svars, fvars>>
SpecReanalyze == InitReanalyze /\ [][NextReanalyze]_vars

\* _calculate_advanced_metrics
InitMetrics == AnalyzerOff /\ PdfInit /\ DbInit /\ BulkInit /\ ChatInit
    /\ StartupInit /\ FnInit /\ WebInit
NextMetrics ==
    \/ _calculate_advanced_metrics_call /\ UNCHANGED <<avars, pvars, dvars
          , bvars, cvars, svars, wvars>>
    \/ fn_return /\ UNCHANGED <<avars, pvars, dvars, bvars, cvars, svars
          , wvars>>
SpecMetrics == InitMetrics /\ [][NextMetrics]_vars

\* ================================================================= claims
Configured == config.pareto_api_key /\ config.agent_id
Returned == pc = "done" /\ ~raised
ScoreFields == {"overall_score", "hard_skills_score", "soft_skills_score",
                "experience_score"}

\* C1: the providers are tried in a fixed order: Tess first and only when it is
\* configured, the local analyzer only after Tess is unconfigured or has
\* failed, the emergency payload only after the local analyzer has failed; and
\* once a provider has returned a result no later provider is invoked.
C1_OrderInv ==
    \A i \in 1..Len(calls) :
        /\ calls[i] = "tess" => i = 1 /\ Configured
        /\ calls[i] = "local" =>
              \/ i = 1 /\ ~Configured
              \/ i = 2 /\ calls[1] = "tess" /\ tess_error.type # "none"
        /\ calls[i] = "emergency" =>
              i > 1 /\ calls[i - 1] = "local" /\ local_error.type # "none"
C1_NoLaterCall == result.provider # "none" => (calls' = calls \/ calls' = <<>>)
C1_ProviderOrder == [](C1_OrderInv) /\ [][C1_NoLaterCall]_vars
C1_Witness == pc = "done" /\ calls = <<"tess", "local", "emergency">>

\* C2: analyze_candidate never raises: whatever Tess and the local analyzer
\* do, the call ends with a result dictionary.
C2_NeverRaises == ~raised /\ (pc = "done" => result.provider # "none")
C2_Witness ==
    /\ pc = "done" /\ result.provider = EMERGENCY_FALLBACK
    /\ tess_error.type = "JSONDecodeError" /\ local_error.type = "ImportError"

\* C3 (as claimed): whichever provider produced it, the returned dictionary has
\* the same set of fields as the one returned before.
C3_SameFields == Returned /\ last_fields # {} => DOMAIN result = last_fields

CoreFields ==
    {"contact_info", "extracted_skills", "matched_skills", "missing_skills",
     "seniority_detected", "experience_years", "experience_summary", "strengths",
     "weaknesses", "professional_summary", "hard_skills_score",
     "soft_skills_score", "experience_score", "overall_score", "recommendation",
     "recommendation_reason", "potential_risks", "analysis_source",
     "analysis_timestamp", "provider", "confidence_level"}
StatFields ==
    {"leadership_responsibilities", "complexity_indicators",
     "mentorship_indicators", "total_skills_found", "skill_match_percentage",
     "projects_mentioned", "education_level", "analysis_note"}
TessFields ==
    {"tess_raw_output", "tess_full_response", "tess_json_analysis",
     "soft_skills_identified", "hard_skills_detailed", "job_positions"}
ExtraFields(provider) ==
    CASE provider = TESS_PARETO -> StatFields \cup TessFields
      [] provider = ENHANCED_LOCAL -> StatFields
      [] provider = EMERGENCY_FALLBACK -> {"error"}

\* C3 (amended): every returned dictionary has the same core of 21 fields
\* (contact, skills, seniority, experience, strengths / weaknesses, summary, the
\* four scores, recommendation, risks, source, timestamp, provider, confidence);
\* beyond the core the fields depend on the provider.
C3_CoreSchema ==
    Returned => /\ CoreFields \subseteq DOMAIN result
                /\ DOMAIN result = CoreFields \cup ExtraFields(result.provider)
C3_Witness ==
    Returned /\ result.provider = EMERGENCY_FALLBACK
             /\ last_fields = CoreFields \cup ExtraFields(TESS_PARETO)

\* C4: in every returned result the four scores lie between 0 and 10.
C4_ScoresInRange ==
    Returned => \A f \in ScoreFields : result[f] >= 0 /\ result[f] <= 100

\* the response of Tess carried an output: responses[0].output or one of the
\* fallback keys is non-empty
HasOutput(body) ==
    \/ Truthy(body.responses0)
    \/ \E k \in FallbackKeySet : Truthy(body.fb[k])

\* C5: the provider field names the provider that produced the result:
\* 'pareto_tess_json' only when Tess was configured and answered HTTP 200 with
\* an output, 'enhanced_local' only when Tess was unconfigured or failed and
\* the local analyzer succeeded, 'error' only when the local analyzer failed.
C5_ProviderNamesProducer ==
    Returned =>
        /\ result.provider = TESS_PARETO =>
              /\ Configured
              /\ tess_reply.kind = "http" /\ tess_reply.status = 200
              /\ tess_reply.body.json /\ HasOutput(tess_reply.body)
        /\ result.provider = ENHANCED_LOCAL =>
              /\ ~Configured \/ tess_error.type # "none"
              /\ local_error.type = "none"
        /\ result.provider = EMERGENCY_FALLBACK => local_error.type # "none"

\* C6: when the local analyzer fails after Tess was unconfigured or failed, the
\* emergency payload has the four scores 0, empty skill lists, recommendation
\* 'Erro de Sistema' and the failure message of the local analyzer as error.
C6_EmergencyPayload ==
    Returned /\ local_error.type # "none" =>
        /\ ~Configured \/ tess_error.type # "none"
        /\ result.provider = EMERGENCY_FALLBACK
        /\ \A f \in ScoreFields : result[f] = 0
        /\ result.extracted_skills = <<>>
        /\ result.matched_skills = <<>>
        /\ result.missing_skills = <<>>
        /\ result.recommendation = SYSTEM_ERROR
        /\ result.error = local_error.msg
C6_Witness ==
    Returned /\ local_error.type = "UnicodeEncodeError"
             /\ tess_error.type = "Timeout"
             /\ result.provider = EMERGENCY_FALLBACK

\* C7: extract_text_from_pdf never raises: pdfplumber is run first, PyPDF2 is
\* run exactly when pdfplumber raised, and the text is empty when both raised.
C7_PdfFallback ==
    /\ ~pdf_raised
    /\ pdf_pc = "done" =>
          /\ pdf_used[1] = "pdfplumber"
          /\ (pdf_used = <<"pdfplumber", "PyPDF2">>) = (pdf_file.pdfplumber.fail # "none")
          /\ (pdf_used = <<"pdfplumber">>) = (pdf_file.pdfplumber.fail = "none")
          /\ pdf_file.pdfplumber.fail # "none" /\ pdf_file.PyPDF2.fail # "none"
                => pdf_text = <<>>
          /\ pdf_file.pdfplumber.fail # "none" /\ pdf_file.PyPDF2.fail = "none"
                => pdf_text = library_text(pdf_file.PyPDF2)
C7_Witness ==
    /\ pdf_pc = "done"
    /\ pdf_file.pdfplumber.fail = "TypeError"
    /\ pdf_file.PyPDF2.fail = "none"
    /\ pdf_text = <<"c", "v">>
    /\ pdf_used = <<"pdfplumber", "PyPDF2">>

\* files of the request with a non-empty name
RECURSIVE named_files(_)
named_files(files) ==
    IF files = <<>> THEN 0
    ELSE (IF Head(files).filename # EmptyName THEN 1 ELSE 0) + named_files(Tail(files))

\* C8 (as claimed): every uploaded file with a non-empty name is counted
\* exactly once, as a success or as an error, and the number of candidates
\* added equals the success count.
C8_EveryFileCounted ==
    bulk_pc = "done" /\ bulk_response # "404" =>
        /\ success_count + error_count = named_files(bulk_request.files)
        /\ bulk_added = success_count

\* the request passed the handler's "no file selected" check
BulkProcessed ==
    /\ bulk_pc = "done" /\ bulk_response # "404"
    /\ bulk_request.has_field
    /\ ~no_file_selected(bulk_request.files)

\* C8 (amended): when the first file of the batch has a non-empty name, every
\* file with a non-empty name is counted exactly once, as a success or as an
\* error, whatever happened to the files before it, and the number of
\* candidates added is the success count when the final commit succeeds and 0
\* when it fails (the batch is rolled back); when the first file's name is
\* empty the batch is rejected as a whole: nothing is counted or added.
C8_BestEffortPerFile ==
    /\ BulkProcessed =>
          /\ success_count + error_count = named_files(bulk_request.files)
          /\ bulk_added = IF bulk_request.commit_ok THEN success_count ELSE 0
    /\ bulk_pc = "done" /\ ~BulkProcessed =>
          success_count = 0 /\ error_count = 0 /\ bulk_added = 0
C8_Witness ==
    /\ BulkProcessed /\ bulk_request.commit_ok
    /\ Len(bulk_request.files) = 2
    /\ ~bulk_request.files[1].pdf_valid
    /\ error_count = 1 /\ success_count = 1 /\ bulk_added = 1

\* the remote endpoint answered HTTP 200 with a non-empty output
AnsweredWithOutput(request) ==
    /\ request.env.pareto_api_key /\ request.env.agent_id
    /\ request.reply.kind = "http" /\ request.reply.status = 200
    /\ request.reply.body.json
    /\ request.reply.body.data.t = "dict"
    /\ \/ ChatTruthy(request.reply.body.data.responses0)
       \/ \E k \in ChatKeySet : ChatTruthy(request.reply.body.data.fb[k])

\* the API is not configured, or the endpoint answered a non-200 status, or
\* the request timed out or raised
RemoteFailed(request) ==
    \/ ~(request.env.pareto_api_key /\ request.env.agent_id)
    \/ request.reply.kind \in {"timeout", "refused"}
    \/ request.reply.kind = "http" /\ request.reply.status # 200

\* C9 (as claimed): process_query returns success = true only when the remote
\* endpoint answered HTTP 200 with a non-empty output, and when the API is not
\* configured, the endpoint answers a non-200 status, or the request times out
\* or raises, the response has success = false and its error field set.
C9_SuccessMeansAnswer ==
    chat_pc = "done" /\ chat_calls > 0 =>
        /\ chat_tess.success => AnsweredWithOutput(chat_request)
        /\ RemoteFailed(chat_request) =>
              ~chat_tess.success /\ chat_tess.error.t = "str"

\* C10: the chatbot query endpoint calls the chatbot service, and sends a
\* request to the remote endpoint, only for a query that is not empty after
\* strip() and only when a candidate with ai_score > 0 exists; a query that is
\* absent, empty or blank is answered with status 400; a non-empty query with
\* no candidate of ai_score > 0 is answered with status 200 and a local
\* message, and in both cases nothing is called or sent.
NonEmptyQuery(data) ==
    /\ data.t = "dict" /\ data.query.t = "chars"
    /\ \E k \in 1..Len(data.query.c) : data.query.c[k] \notin {" ", "\n"}
EmptyQuery(data) ==
    /\ data.t = "dict"
    /\ \/ data.query.t = "absent"
       \/ /\ data.query.t = "chars"
          /\ \A k \in 1..Len(data.query.c) : data.query.c[k] \in {" ", "\n"}
HasScoredCandidate ==
    \E k \in 1..Len(db_candidates) :
        db_candidates[k].ai_score.t = "num" /\ db_candidates[k].ai_score.v > 0
C10_RemoteOnlyWithQueryAndScores ==
    chat_pc = "done" =>
        /\ chat_calls > 0 \/ chat_posts > 0 =>
              NonEmptyQuery(chat_request.data) /\ HasScoredCandidate
        /\ EmptyQuery(chat_request.data) =>
              chat_response.status = 400 /\ chat_calls = 0 /\ chat_posts = 0
        /\ NonEmptyQuery(chat_request.data) /\ ~HasScoredCandidate =>
              /\ chat_response.status = 200
              /\ chat_response.kind \in {"no_data", "no_candidates"}
              /\ chat_calls = 0 /\ chat_posts = 0
C10_Witness ==
    /\ chat_pc = "done"
    /\ NonEmptyQuery(chat_request.data) /\ HasScoredCandidate
    /\ \E k \in 1..Len(db_candidates) : db_candidates[k].ai_score = Num(0)
    /\ chat_calls = 1 /\ chat_posts = 1 /\ chat_response.kind = "service"

PreviousRunReachedDatabase ==
    /\ "create_all" \in prev_boot_log
    /\ "column_added" \in prev_boot_log \/ "column_exists" \in prev_boot_log

C12_CountryCodeThenNational ==
    fn_pc = "done" /\ fn_name = "format_phone" =>
        IF fn_input.typed = NoPhone THEN fn_output = Null
        ELSE fn_output = Chars(<<"5", "5">> \o fn_input.typed.area
                                 \o fn_input.typed.subscriber)

\* C13: toggle_admin and delete_user change table user only when the
\* requesting user is an administrator and the target is another user: a
\* request by a non-administrator, or by an administrator on their own
\* account, leaves every user unchanged; and the only change is the target's
\* is_admin flag (toggle_admin) or the target's row (delete_user).
AdminHandlers == {"toggle_admin", "delete_user"}
C13_OnlyAdminsChangeOthers ==
    web_pc = "done" /\ web_request.handler \in AdminHandlers =>
        LET before == db_prev.users
            requester == web_request.current_user
            target == web_request.user_id
            admin == \E k \in 1..Len(before) :
                         before[k].id = requester /\ before[k].is_admin
        IN  /\ db_users # before => admin /\ target # requester
            /\ ~admin \/ target = requester => db_users = before
            /\ \A k \in 1..Len(before) :
                  before[k].id # target =>
                      \E j \in 1..Len(db_users) : db_users[j] = before[k]
C13_Witness ==
    /\ web_pc = "done" /\ web_request.handler = "delete_user"
    /\ web_request.current_user = 2 /\ web_request.user_id = 1
    /\ Len(db_prev.users) = 3 /\ Len(db_users) = 2
    /\ \A k \in 1..Len(db_users) : db_users[k].id # 1

\* the rows a file adds for a job whose candidates have the emails `taken`:
\* a row with a non-empty name, a non-empty well-formed email that no
\* candidate of the job and no earlier added row has (and, when `lookups` is
\* set, whose query for the email worked)
Importable(row, lookups) ==
    /\ cell_text(row.nome) \notin {<<>>, <<"n", "a", "n">>}
    /\ cell_text(row.email) \notin {<<>>, <<"n", "a", "n">>}
    /\ validate_email(Chars(cell_text(row.email)))
    /\ lookups => row.lookup_ok
RECURSIVE ImportedEmails(_, _, _)
ImportedEmails(rows, taken, lookups) ==
    IF rows = <<>> THEN <<>>
    ELSE LET email == Chars(cell_text(Head(rows).email))
         IN  IF Importable(Head(rows), lookups) /\ email \notin taken
             THEN <<email>> \o ImportedEmails(Tail(rows), taken \cup {email}, lookups)
             ELSE ImportedEmails(Tail(rows), taken, lookups)
EmailsOfJob(table, job_id) ==
    {table[k].email : k \in {j \in 1..Len(table) : table[j].job_id = job_id}}
AddedEmails ==
    [k \in 1..(Len(db_candidates) - Len(db_prev.candidates)) |->
        db_candidates[Len(db_prev.candidates) + k].email]
Imported == web_pc = "done" /\ web_request.handler = "import_candidates"
                            /\ web_response.kind # "404"

\* C15 (as claimed): import adds a row as a candidate exactly when its name
\* and email are non-empty, its email is well-formed and no candidate of the
\* job, nor an earlier row of the file, has that email; every other row is
\* counted as an error, so imported rows plus error rows equal the rows of
\* the file.
C15_RowsImportedOrCounted ==
    Imported =>
        /\ AddedEmails = ImportedEmails(web_request.file.rows,
                             EmailsOfJob(db_prev.candidates, web_request.job_id), FALSE)
        /\ web_response.success_count = Len(AddedEmails)
        /\ web_response.success_count + web_response.error_count
              = Len(web_request.file.rows)

\* C15 (amended): for a file that is read and has the columns nome and email,
\* a row is imported exactly when its name and email are non-empty, its email
\* is well-formed, the query for its email raises nothing and no candidate of
\* the job, nor an earlier imported row of the file, has that email; every
\* other row is counted as an error, and imported rows plus error rows equal
\* the rows of the file. The imported rows are added as candidates when the
\* final commit succeeds; when it fails, and when the file is rejected as a
\* whole, no candidate is added, and a rejected file has no row counted.
C15_ImportOfAcceptedFile ==
    Imported =>
        LET expected == ImportedEmails(web_request.file.rows,
                            EmailsOfJob(db_prev.candidates, web_request.job_id), TRUE)
        IN  /\ Len(db_candidates) >= Len(db_prev.candidates)
            /\ SubSeq(db_candidates, 1, Len(db_prev.candidates)) = db_prev.candidates
            /\ IF web_request.file.kind = "ok"
               THEN /\ web_response.success_count = Len(expected)
                    /\ web_response.success_count + web_response.error_count
                          = Len(web_request.file.rows)
                    /\ AddedEmails = IF web_request.commit_ok THEN expected ELSE <<>>
               ELSE /\ AddedEmails = <<>>
                    /\ web_response.success_count = 0
                    /\ web_response.error_count = 0
C15_Witness ==
    /\ Imported /\ web_request.file.kind = "ok" /\ web_request.commit_ok
    /\ Len(web_request.file.rows) = 2
    /\ web_request.file.rows[1].email = EmailB
    /\ web_request.file.rows[2].email = EmailB
    /\ web_response.success_count = 1 /\ web_response.error_count = 1
    /\ AddedEmails = <<EmailB>>
    /\ Len(db_prev.candidates) = 1

\* C16: after a successful delete_job neither the job nor any candidate whose
\* job_id is that job remains in the database, and the jobs and the
\* candidates of every other job are unchanged.
C16_JobAndItsCandidatesGone ==
    web_pc = "done" /\ web_request.handler = "delete_job"
                    /\ web_response = "deleted" =>
        /\ \A k \in 1..Len(db_jobs) : db_jobs[k].id # web_request.job_id
        /\ \A k \in 1..Len(db_candidates) :
              db_candidates[k].job_id # web_request.job_id
        /\ db_jobs = SelectSeq(db_prev.jobs, LAMBDA j : j.id # web_request.job_id)
        /\ db_candidates =
              SelectSeq(db_prev.candidates, LAMBDA c : c.job_id # web_request.job_id)
C16_Witness ==
    /\ web_pc = "done" /\ web_request.handler = "delete_job"
    /\ web_response = "deleted" /\ web_request.job_id = 1
    /\ Len(db_prev.candidates) = 3 /\ Len(db_candidates) = 1
    /\ Len(db_prev.jobs) = 2 /\ Len(db_jobs) = 1


\* ------------------------------------------------------------------ C17
\* what the claim asks of a request, read off the request itself
AcceptableForm(form) ==
    /\ strip(form.name) # <<>>
    /\ validate_email(Chars(strip(form.email)))
    /\ Len(SelectSeq(strip(form.phone), isdigit)) \in 10..11
AcceptableUpload(file) ==
    /\ file # Null
    /\ file.filename.ext \in {"pdf", "PDF"}
    /\ file.size_mb > 0 /\ file.size_mb <= 16
SavedByRequest(post) ==
    post.method = "POST" /\ AcceptableForm(post.form) /\ AcceptableUpload(post.file)

C14_StatusIsOneOfFour ==
    /\ \A k \in 1..Len(db_candidates) :
          db_candidates[k].status \in {"pending", "interview", "approved", "rejected"}
    /\ /\ web_pc = "done" /\ web_request.handler = "update_candidate_status"
       /\ web_request.new_status \notin
             {Str("pending"), Str("interview"), Str("approved"), Str("rejected")}
       /\ web_request.candidate_id \in 1..Len(db_prev.candidates)
       => db_candidates[web_request.candidate_id]
             = db_prev.candidates[web_request.candidate_id]
C14_Witness ==
    /\ web_pc = "done" /\ web_request.handler = "update_candidate_status"
    /\ web_request.new_status = Str("hired") /\ web_request.candidate_id = 2
    /\ Len(db_candidates) = 2
    /\ db_candidates[1].status = "interview" /\ db_candidates[2].status = "approved"
    /\ {db_candidates[k].resume_path.t : k \in 1..2} = {"null", "path"}
    /\ db_interviews # <<>>

\* ------------------------------------------------------------------ C18
\* every provider fails for the candidate: Tess is not configured or its call
\* raises, and the local analyzer raises
EveryProviderFails(row, env) ==
    /\ ~is_tess_configured(env.config)
       \/ ~TessAnalyzer_analyze([contact |-> FALSE, resume_text |-> row.resume_text],
                                env.reply).ok
    /\ ~EnhancedLocalAnalyzer_analyze([contact |-> FALSE, resume_text |-> row.resume_text],
                                      2..3, env.fault).ok

\* the candidates of a reanalyze-all request for which every provider fails
FailedRows ==
    {k \in 1..Len(db_prev.candidates) :
        /\ db_prev.candidates[k].job_id = web_request.job_id
        /\ db_prev.candidates[k].resume_text # Null
        /\ EveryProviderFails(db_prev.candidates[k], web_request.envs[k])}

\* C18 (as claimed): when every analysis provider fails for a candidate during
\* a re-analysis, the ai_score and the ai_analysis stored for the candidate
\* stay as they were and the candidate is reported as an error, not as an
\* update: reanalyze_candidate flashes an error, reanalyze_all counts it in
\* error_count.
C18_FailureKeepsAnalysis ==
    /\ /\ web_pc = "done" /\ web_request.handler = "reanalyze_candidate"
       /\ web_response # "404"
       /\ db_prev.candidates[web_request.candidate_id].resume_text # Null
       /\ EveryProviderFails(db_prev.candidates[web_request.candidate_id],
                             web_request.env)
       => /\ db_candidates = db_prev.candidates
          /\ web_response = "flash_error"
    /\ /\ web_pc = "done"
       /\ web_request.handler = "reanalyze_all_candidates_for_job"
       /\ web_response.kind \in {"flash_success", "flash_error"}
       => /\ \A k \in FailedRows : db_candidates[k] = db_prev.candidates[k]
          /\ web_response.error_count >= Cardinality(FailedRows)

\* ------------------------------------------------------------------ C19
\* C19 (as claimed): when the analysis fails while new_candidate creates a
\* candidate (every provider fails for the uploaded resume), the candidate is
\* stored with ai_score 50 and the recommendation 'Analise manual necessaria'.
C19_FailureStoresManualReview ==
    /\ web_pc = "done" /\ web_request.handler = "new_candidate"
    /\ web_response = "redirect_candidate_detail"
    /\ EveryProviderFails([resume_text |-> ResumeCV], web_request.post.env)
    => LET stored == db_candidates[Len(db_candidates)]
       IN  /\ stored.ai_score = Num(500)
           /\ stored.ai_analysis.recommendation = "Analise manual necessaria"

\* ------------------------------------------------------------------ C20
RECURSIVE SumOf(_, _)
SumOf(f, keys) ==
    IF keys = {} THEN 0
    ELSE LET k == CHOOSE x \in keys : TRUE
         IN  f[k] + SumOf(f, keys \ {k})

\* C20: in the metrics computed for the chatbot prompt every candidate is in
\* exactly one performance band (score_geral >= 8, 6 <= score_geral < 8,
\* score_geral < 6): the three band counts add up to the number of candidates,
\* and so do the counts of the seniority distribution.
C20_BandsPartitionCandidates ==
    /\ fn_pc = "done" /\ fn_name = "_calculate_advanced_metrics"
    /\ fn_input # <<>>
    => /\ fn_output.high_performers + fn_output.mid_performers
             + fn_output.low_performers = Len(fn_input)
       /\ SumOf(fn_output.seniority_dist, DOMAIN fn_output.seniority_dist)
             = Len(fn_input)
       /\ \A s \in DOMAIN fn_output.seniority_dist : fn_output.seniority_dist[s] > 0
C20_Witness ==
    /\ fn_pc = "done" /\ fn_name = "_calculate_advanced_metrics"
    /\ Len(fn_input) = 3
    /\ fn_output.high_performers = 1 /\ fn_output.mid_performers = 1
    /\ fn_output.low_performers = 1
    /\ \E k \in 1..3 : fn_input[k].score_geral = Num(80)
    /\ \E k \in 1..3 : fn_input[k].score_geral = Absent
    /\ Cardinality(DOMAIN fn_output.seniority_dist) = 2
====
